---- MODULE Spec2Model ----
(***************************************************************************)
(* Trust-and-replication engine of the p2p key/value synchronisation node: *)
(* the last-writer-wins store, the rate limiter, the peer whitelist, the   *)
(* key-distribution manager and the inbound gossip pipeline.               *)
(*                                                                         *)
(* Time.  An instant is a number of ticks; TicksPerSecond ticks make one   *)
(* second.  chrono::DateTime and std::time::Instant both carry sub-second  *)
(* precision, DateTime::timestamp() keeps whole seconds only.              *)
(* Tables and hash maps are functions whose domain is the set of keys that *)
(* have a row; an Option is a sequence of length 0 (None) or 1 (Some).     *)
(***************************************************************************)
EXTENDS Integers, Sequences, FiniteSets, TLC

VARIABLES
    now,            \* the clock (ticks): Utc::now() and Instant::now()
    store,          \* Storage.conn, table kv_store: key -> [value, timestamp]
    lastOp,         \* history: the last operation applied to store
    hist,           \* history: per key, what was ever applied to it
    syncSet,        \* the sync messages published on the topic for one key
    replica,        \* node -> Storage of that node (table kv_store)
    applied,        \* history: node -> the messages of syncSet it has applied
    lastApplied,    \* history: node -> the message it applied last
    requests,       \* RateLimiter.requests: peer -> Vec<Instant>
    admitted,       \* history: peer -> the instants at which check_rate_limit succeeded
    lastCheck,      \* history: the last call of check_rate_limit
    calls,          \* history: the number of check_rate_limit calls made
    db,             \* PeerWhitelist.db, table peer_whitelist: peer -> row
    cache,          \* PeerWhitelist.cache of the running node
    pending_requests,    \* KeyDistributionManager.pending_requests: peer -> instant
    processed_messages,  \* KeyDistributionManager.processed_messages: id -> instant
    active_connections,  \* ConnectionManager.active_connections: peer -> ip
    connections_per_ip,  \* AccessControl.connections_per_ip: ip -> count
    everDirect,     \* history: the peers add_peer has ever written a row for
    mutations,      \* history: message id -> deliveries that changed the whitelist
    lastGossip,     \* history: what the pipeline did with the last gossip message
    running,        \* the event loop of run_node has not returned
    config,         \* AccessControl: its SecurityConfig and whether a whitelist is attached
    key_dist_config,     \* KeyDistributionManager.config
    envelope,       \* a SignedData envelope, as it travels
    tasks,          \* the concurrent tasks (tokio::spawn): task -> its position and locals
    lastCall        \* history: the last call made on a component and what it returned

storeVars == <<store, lastOp, hist>>
replicaVars == <<syncSet, replica, applied, lastApplied>>
rateVars == <<requests, admitted, lastCheck, calls>>
nodeVars == <<db, cache, pending_requests, processed_messages, active_connections,
              connections_per_ip, everDirect, mutations, lastGossip, running>>
unitVars == <<config, key_dist_config, envelope, tasks, lastCall>>
vars == <<now, storeVars, replicaVars, rateVars, nodeVars, unitVars>>

\* what the actions of one component leave unchanged
outsideStore == <<now, replicaVars, rateVars, nodeVars, unitVars>>
outsideReplicas == <<now, storeVars, rateVars, nodeVars, unitVars>>
outsideRate == <<storeVars, replicaVars, nodeVars, unitVars>>

(***************************************************************************)
(* Bounds of the model.                                                    *)
(***************************************************************************)
TicksPerSecond == 2
MaxInstant == 4
MaxMsgs == 3
MaxCalls == 4
MaxHours == 1

Keys == {"k1", "k2"}
Values == {"a", "b"}
Instants == 0..MaxInstant
Nodes == {"A", "B"}
Peers == {"w", "x", "y"}
Senders == {"w", "x"}

None == <<>>
Some(x) == <<x>>

Max(S) == CHOOSE x \in S : \A y \in S : y <= x

\* f with the row of key k removed (SQL DELETE, HashMap::remove)
Without(f, k) == [x \in DOMAIN f \ {k} |-> f[x]]

\* f with the row of key k written (SQL INSERT OR REPLACE, HashMap::insert)
Upsert(f, k, row) == (k :> row) @@ f

(***************************************************************************)
(* storage.rs: the key-value store                                         *)
(***************************************************************************)

\* chrono DateTime::timestamp(): whole seconds since the epoch
timestamp(t) == t \div TicksPerSecond

\* SELECT timestamp FROM kv_store WHERE key = ?1, .optional()
existing_timestamp(s, key) == IF key \in DOMAIN s THEN Some(s[key].timestamp) ELSE None

put_with_timestamp_ge(s, key, value, t) ==
    LET existing == existing_timestamp(s, key)
    IN  IF existing # None /\ existing[1] >= timestamp(t)
        THEN s
        ELSE Upsert(s, key, [value |-> value, timestamp |-> timestamp(t)])

put_with_timestamp_keep_ts(s, key, value, t) ==
    LET existing == existing_timestamp(s, key)
    IN  IF existing # None /\ existing[1] > timestamp(t)
        THEN s
        ELSE Upsert(s, key, [value |-> value,
                             timestamp |-> IF existing # None THEN existing[1]
                                           ELSE timestamp(t)])

put_with_timestamp_always(s, key, value, t) ==
    Upsert(s, key, [value |-> value, timestamp |-> timestamp(t)])

\* Storage::put_with_timestamp
put_with_timestamp(s, key, value, t) ==
    LET existing == existing_timestamp(s, key)
    IN  IF existing # None /\ existing[1] > timestamp(t)
        THEN s
        ELSE Upsert(s, key, [value |-> value, timestamp |-> timestamp(t)])

delete_with_timestamp_le(s, key, t) ==
    LET existing == existing_timestamp(s, key)
    IN  IF existing # None /\ existing[1] <= timestamp(t)
        THEN Without(s, key)
        ELSE s

\* a delete that keeps the row as a tombstone carrying its timestamp
delete_with_timestamp_tombstone(s, key, t) ==
    LET existing == existing_timestamp(s, key)
    IN  IF existing # None /\ existing[1] < timestamp(t)
        THEN Upsert(s, key, [value |-> "", timestamp |-> timestamp(t)])
        ELSE s

\* Storage::delete_with_timestamp
delete_with_timestamp(s, key, t) ==
    LET existing == existing_timestamp(s, key)
    IN  IF existing # None /\ existing[1] < timestamp(t)
        THEN Without(s, key)
        ELSE s

\* Storage::get
get(s, key) == IF key \in DOMAIN s THEN Some(s[key].value) ELSE None

(***************************************************************************)
(* History of the store, kept for the properties only.                     *)
(*   hist[k].maxApplied     greatest whole-second timestamp of any put or  *)
(*                          delete ever applied to k (-1: none yet)        *)
(*   hist[k].maxSinceAbsent the same, counted from the put that created    *)
(*                          the current entry of k (-1 while k is absent)  *)
(*   hist[k].putInstant     the instant carried by the put that wrote the  *)
(*                          current entry of k (-1 while k is absent)      *)
(***************************************************************************)
NoOp == [op |-> "none", key |-> "", value |-> "", t |-> 0, pre |-> None, preInstant |-> -1]

OpRecord(op, s, h, key, value, t) ==
    [op |-> op, key |-> key, value |-> value, t |-> t,
     pre |-> IF key \in DOMAIN s THEN Some(s[key]) ELSE None,
     preInstant |-> h[key].putInstant]

HistAfter(h, s, s2, op, key, t) ==
    [h EXCEPT ![key] =
        [maxApplied |-> IF timestamp(t) > @.maxApplied THEN timestamp(t) ELSE @.maxApplied,
         maxSinceAbsent |->
            IF key \notin DOMAIN s2 THEN -1
            ELSE IF key \notin DOMAIN s THEN timestamp(t)
            ELSE IF timestamp(t) > @.maxSinceAbsent THEN timestamp(t) ELSE @.maxSinceAbsent,
         putInstant |->
            IF key \notin DOMAIN s2 THEN -1
            ELSE IF op = "put" /\ (key \notin DOMAIN s \/ s2[key] # s[key]
                                   \/ s[key].timestamp <= timestamp(t)) THEN t
            ELSE @.putInstant]]

\* Storage::new: an empty table
StoreInit ==
    /\ store = <<>>
    /\ lastOp = NoOp
    /\ hist = [k \in Keys |-> [maxApplied |-> -1, maxSinceAbsent |-> -1, putInstant |-> -1]]

\* no message gossiped, every node with an empty store
ReplicasInit ==
    /\ syncSet = {}
    /\ replica = [n \in Nodes |-> <<>>]
    /\ applied = [n \in Nodes |-> {}]
    /\ lastApplied = [n \in Nodes |-> None]

\* RateLimiter::new: no request recorded
RateInit ==
    /\ requests = <<>>
    /\ admitted = [p \in Senders |-> <<>>]
    /\ lastCheck = [peer |-> "", at |-> 0, ok |-> FALSE]
    /\ calls = 0

\* PeerWhitelist::new on an empty table, KeyDistributionManager::new,
\* ConnectionManager::new
NodeInit ==
    /\ db = <<>>
    /\ cache = {}
    /\ pending_requests = <<>>
    /\ processed_messages = <<>>
    /\ active_connections = <<>>
    /\ connections_per_ip = <<>>
    /\ everDirect = {}
    /\ mutations = <<>>
    /\ lastGossip = [outcome |-> "none", keyed |-> FALSE, verified |-> FALSE,
                     changed |-> {}, trust_gain |-> <<>>]
    /\ running = TRUE

\* SecurityConfig::default: nobody is blocked and there is no static list of
\* allowed peers
blocked_peers == {}
allowed_peers == None

\* AccessControl::with_whitelist(config.security, whitelist) of run_node
NodeConfig ==
    [blocked_peers |-> blocked_peers, allowed_peers |-> allowed_peers, whitelist |-> TRUE]

\* KeyDistributionConfig::default, the configuration run_node hands to
\* KeyDistributionManager::new
auto_share_keys == TRUE
auto_request_keys == TRUE
accept_whitelist_requests == FALSE
KeyDistributionConfig_default ==
    [auto_share_keys |-> auto_share_keys,
     auto_request_keys |-> auto_request_keys,
     accept_whitelist_requests |-> accept_whitelist_requests]

\* no envelope is under way and nothing has been called yet
UnitInit ==
    /\ config = NodeConfig
    /\ key_dist_config = KeyDistributionConfig_default
    /\ envelope = <<>>
    /\ tasks = <<>>
    /\ lastCall = [op |-> "none"]

InitStore ==
    /\ now = 0
    /\ StoreInit
    /\ ReplicasInit
    /\ RateInit
    /\ NodeInit
    /\ UnitInit

\* a put applied to the store: handle_gossipsub_event Put arm, handle_input add
Put(key, value, t) ==
    /\ store' = put_with_timestamp(store, key, value, t)
    /\ lastOp' = OpRecord("put", store, hist, key, value, t)
    /\ hist' = HistAfter(hist, store, store', "put", key, t)
    /\ UNCHANGED outsideStore

\* a delete applied to the store: handle_gossipsub_event Delete arm, handle_input delete
Delete(key, t) ==
    /\ store' = delete_with_timestamp(store, key, t)
    /\ lastOp' = OpRecord("delete", store, hist, key, "", t)
    /\ hist' = HistAfter(hist, store, store', "delete", key, t)
    /\ UNCHANGED outsideStore

NextStore ==
    \/ \E key \in Keys, value \in Values, t \in Instants : Put(key, value, t)
    \/ \E key \in Keys, t \in Instants : Delete(key, t)

SpecStore == InitStore /\ [][NextStore]_vars

(***************************************************************************)
(* security.rs: RateLimiter                                                *)
(***************************************************************************)
rate_limit_per_minute == 2
rate_limit_burst == 1
MinuteSeconds == 60
BurstSeconds == 1

\* Duration::from_secs(n), in ticks
from_secs(n) == n * TicksPerSecond

check_rate_limit_off_by_one(reqs, peer, t) ==
    LET minute_ago == t - from_secs(MinuteSeconds)
        entry == IF peer \in DOMAIN reqs THEN reqs[peer] ELSE <<>>
        peer_requests == SelectSeq(entry, LAMBDA instant : instant > minute_ago)
        recent_requests ==
            Len(SelectSeq(peer_requests, LAMBDA instant : instant > t - from_secs(BurstSeconds)))
    IN  IF Len(peer_requests) > rate_limit_per_minute
        THEN [ok |-> FALSE, requests |-> Upsert(reqs, peer, peer_requests)]
        ELSE IF recent_requests >= rate_limit_burst
        THEN [ok |-> FALSE, requests |-> Upsert(reqs, peer, peer_requests)]
        ELSE [ok |-> TRUE, requests |-> Upsert(reqs, peer, Append(peer_requests, t))]

\* RateLimiter::check_rate_limit called at instant t: the result and the
\* request map it leaves (the entry is created and the old instants are
\* evicted also when the call fails)
check_rate_limit(reqs, peer, t) ==
    LET minute_ago == t - from_secs(MinuteSeconds)
        entry == IF peer \in DOMAIN reqs THEN reqs[peer] ELSE <<>>
        peer_requests == SelectSeq(entry, LAMBDA instant : instant > minute_ago)
        recent_requests ==
            Len(SelectSeq(peer_requests, LAMBDA instant : instant > t - from_secs(BurstSeconds)))
    IN  IF Len(peer_requests) >= rate_limit_per_minute
        THEN [ok |-> FALSE, requests |-> Upsert(reqs, peer, peer_requests)]
        ELSE IF recent_requests >= rate_limit_burst
        THEN [ok |-> FALSE, requests |-> Upsert(reqs, peer, peer_requests)]
        ELSE [ok |-> TRUE, requests |-> Upsert(reqs, peer, Append(peer_requests, t))]

\* the delays between one call and the next: none, half a second, one
\* second, just under a minute, one minute
CallDelays ==
    {0, 1, from_secs(BurstSeconds), from_secs(MinuteSeconds) - 1, from_secs(MinuteSeconds)}

InitRate ==
    /\ now = 0
    /\ StoreInit
    /\ ReplicasInit
    /\ RateInit
    /\ NodeInit
    /\ UnitInit

\* handle_gossipsub_event, first step: a message from peer arrives d ticks
\* after the previous one and is checked against the rate limit
CheckRateLimit(peer, d) ==
    LET r == check_rate_limit(requests, peer, now + d)
    IN  /\ calls < MaxCalls
        /\ now' = now + d
        /\ requests' = r.requests
        /\ admitted' = IF r.ok THEN [admitted EXCEPT ![peer] = Append(@, now + d)] ELSE admitted
        /\ lastCheck' = [peer |-> peer, at |-> now + d, ok |-> r.ok]
        /\ calls' = calls + 1
        /\ UNCHANGED outsideRate

NextRate == \E peer \in Senders, d \in CallDelays : CheckRateLimit(peer, d)

SpecRate == InitRate /\ [][NextRate]_vars

\* the number of calls of peer that succeeded in the window (e - w, e]
AdmittedIn(peer, e, w) ==
    Cardinality({i \in 1..Len(admitted[peer]) :
                    admitted[peer][i] > e - w /\ admitted[peer][i] <= e})

\* C5: for every sender, the calls of check_rate_limit that succeed number at
\* most rate_limit_per_minute in any 60-second window and at most
\* rate_limit_burst in any 1-second window (windows (e - w, e]; a window
\* holding the most successes ends at a success, so those are the windows
\* examined); and a call is refused only when one of the two limits is
\* reached, so the first of two calls in quick succession succeeds and,
\* with a burst of 1, the second fails.
C5_RateAdmission ==
    /\ \A peer \in Senders : \A i \in 1..Len(admitted[peer]) :
        LET e == admitted[peer][i]
        IN
          /\ AdmittedIn(peer, e, from_secs(MinuteSeconds)) <= rate_limit_per_minute
          /\ AdmittedIn(peer, e, from_secs(BurstSeconds)) <= rate_limit_burst
    /\ (calls > 0 /\ ~lastCheck.ok) =>
          \/ AdmittedIn(lastCheck.peer, lastCheck.at, from_secs(MinuteSeconds))
                >= rate_limit_per_minute
          \/ AdmittedIn(lastCheck.peer, lastCheck.at, from_secs(BurstSeconds))
                >= rate_limit_burst

\* C5 witness: a sender was admitted twice, then again once its first
\* request had left the 60-second window, and its latest call, made less
\* than a second after that, was refused.
C5_Witness ==
    /\ calls > 0
    /\ ~lastCheck.ok
    /\ Len(admitted[lastCheck.peer]) = 3
    /\ admitted[lastCheck.peer][3] - admitted[lastCheck.peer][1] >= from_secs(MinuteSeconds)
    /\ lastCheck.at - admitted[lastCheck.peer][3] < from_secs(BurstSeconds)

(***************************************************************************)
(* Properties of the store (SpecStore)                                     *)
(***************************************************************************)

\* the entry of key is the same in store as it was before lastOp
EntryUnchanged(key) ==
    \/ lastOp.pre = None /\ key \notin DOMAIN store
    \/ lastOp.pre # None /\ key \in DOMAIN store /\ store[key] = lastOp.pre[1]

\* the entry of key is the one the put lastOp writes
EntryWritten(key) ==
    /\ key \in DOMAIN store
    /\ store[key] = [value |-> lastOp.value, timestamp |-> timestamp(lastOp.t)]

\* C6: put_with_timestamp(k, v, t) inserts when k has no entry, leaves the
\* entry unchanged when the stored timestamp t0 (whole seconds) is greater
\* than t, and otherwise (t0 <= t, a tie included) overwrites value and
\* timestamp.
C6_PutRule ==
    lastOp.op = "put" =>
        IF lastOp.pre = None THEN EntryWritten(lastOp.key)
        ELSE IF lastOp.pre[1].timestamp * TicksPerSecond > lastOp.t
             THEN EntryUnchanged(lastOp.key)
             ELSE EntryWritten(lastOp.key)

\* C6 witness: a put older than the stored entry was applied and ignored
\* while the entry holds another value (put at 100, then put at 50).
C6_Witness ==
    /\ lastOp.op = "put"
    /\ lastOp.pre # None
    /\ lastOp.pre[1].timestamp * TicksPerSecond > lastOp.t
    /\ lastOp.key \in DOMAIN store
    /\ store[lastOp.key].value # lastOp.value

\* C7 (as claimed): delete_with_timestamp(k, t) removes the entry of k if and
\* only if an entry exists whose put instant t0 is strictly older than the
\* delete instant t, for any two instants however close; otherwise the store
\* is unchanged.
C7_DeleteRule ==
    lastOp.op = "delete" =>
        IF lastOp.pre # None /\ lastOp.preInstant < lastOp.t
        THEN lastOp.key \notin DOMAIN store
        ELSE EntryUnchanged(lastOp.key)

\* C8: a put and a delete on the same key with exactly the same timestamp t,
\* applied one right after the other in either order to a store where the
\* key is absent or has a timestamp below t, leave the key present with the
\* put's value.
C8_TieResolvesToPut ==
    [][ ( /\ lastOp.op \in {"put", "delete"}
          /\ lastOp'.op \in {"put", "delete"}
          /\ lastOp'.op # lastOp.op
          /\ lastOp'.key = lastOp.key
          /\ lastOp'.t = lastOp.t
          /\ \/ lastOp.pre = None
             \/ lastOp.pre[1].timestamp * TicksPerSecond < lastOp.t )
        => ( /\ lastOp.key \in DOMAIN store'
             /\ store'[lastOp.key].value =
                    IF lastOp.op = "put" THEN lastOp.value ELSE lastOp'.value
             /\ store'[lastOp.key].timestamp = timestamp(lastOp.t) ) ]_vars

\* C8 witness: a delete carrying the very instant of the put that wrote the
\* entry has been applied, and the entry is still there.
C8_Witness ==
    /\ lastOp.op = "delete"
    /\ lastOp.pre # None
    /\ lastOp.preInstant = lastOp.t
    /\ lastOp.key \in DOMAIN store
    /\ store[lastOp.key] = lastOp.pre[1]

\* C9 (as claimed): for every key that has an entry, the stored timestamp is
\* the greatest (whole-second) timestamp of any put or delete ever applied
\* to that key.
C9_StoredIsMaxEver ==
    \A k \in DOMAIN store : store[k].timestamp = hist[k].maxApplied

\* C9 (amended): for every key that has an entry, the stored timestamp is
\* the greatest whole-second timestamp of any put or delete applied to that
\* key since the key was last absent (the put that created the entry
\* included).
C9_StoredIsMaxSinceAbsent ==
    \A k \in DOMAIN store : store[k].timestamp = hist[k].maxSinceAbsent

\* C9 witness: a key has an entry, a delete was just applied to it and
\* ignored, and an operation with a greater timestamp had been applied to
\* the key before it was last absent.
C9_Witness ==
    /\ lastOp.op = "delete"
    /\ lastOp.pre # None
    /\ lastOp.key \in DOMAIN store
    /\ hist[lastOp.key].maxApplied > store[lastOp.key].timestamp
    /\ hist[lastOp.key].maxSinceAbsent = store[lastOp.key].timestamp

\* C35: no memory of deletes.  When a delete with instant t3 has just
\* removed the entry a put with instant t1 wrote (t1 before t3), a put of the
\* same key with an instant t2 between t1 and t3 that is applied next is
\* admitted: the key is absent before it and holds the value of that put
\* after it.
C35_LatePutReadmitted ==
    [][ ( /\ lastOp.op = "delete"
          /\ lastOp.pre # None
          /\ lastOp.pre[1].timestamp < timestamp(lastOp.t)
          /\ lastOp'.op = "put"
          /\ lastOp'.key = lastOp.key
          /\ lastOp.preInstant < lastOp'.t
          /\ lastOp'.t < lastOp.t )
        => ( /\ lastOp.key \notin DOMAIN store
             /\ get(store', lastOp.key) = Some(lastOp'.value)
             /\ store'[lastOp.key].timestamp = timestamp(lastOp'.t) ) ]_vars

\* C35 witness: a put has just created the entry of a key to which an
\* operation of a later second had been applied before, and the entry
\* carries the put's value and second.
C35_Witness ==
    /\ lastOp.op = "put"
    /\ lastOp.pre = None
    /\ lastOp.key \in DOMAIN store
    /\ store[lastOp.key] = [value |-> lastOp.value, timestamp |-> timestamp(lastOp.t)]
    /\ hist[lastOp.key].maxApplied > timestamp(lastOp.t)

(***************************************************************************)
(* sync.rs, main.rs: replication of sync messages to several nodes         *)
(***************************************************************************)

\* sync.rs SyncMessage::Put / SyncMessage::Delete on one key
SyncMessages(key) ==
    [op : {"Put"}, key : {key}, value : Values, timestamp : Instants]
        \cup [op : {"Delete"}, key : {key}, value : {""}, timestamp : Instants]

\* handle_gossipsub_event, the arm for P2PMessage::Sync: the store after the
\* message has been applied
apply_sync(s, m) ==
    IF m.op = "Put"
    THEN put_with_timestamp(s, m.key, m.value, m.timestamp)
    ELSE delete_with_timestamp(s, m.key, m.timestamp)

\* every node starts with an empty store; some set of at most MaxMsgs
\* messages on one key is going to be gossiped
InitReplicas ==
    /\ now = 0
    /\ StoreInit
    /\ RateInit
    /\ NodeInit
    /\ UnitInit
    /\ \E key \in Keys :
         syncSet \in {S \in SUBSET SyncMessages(key) : S # {} /\ Cardinality(S) <= MaxMsgs}
    /\ replica = [n \in Nodes |-> <<>>]
    /\ applied = [n \in Nodes |-> {}]
    /\ lastApplied = [n \in Nodes |-> None]

\* gossip delivers message m to node n (in any order, any number of times)
Deliver(n, m) ==
    /\ replica' = [replica EXCEPT ![n] = apply_sync(@, m)]
    /\ applied' = [applied EXCEPT ![n] = @ \cup {m}]
    /\ lastApplied' = [lastApplied EXCEPT ![n] = Some(m)]
    /\ UNCHANGED <<outsideReplicas, syncSet>>

NextReplicas == \E n \in Nodes, m \in syncSet : Deliver(n, m)

SpecReplicas == InitReplicas /\ [][NextReplicas]_vars

\* m carries the strictly greatest timestamp of syncSet
StrictlyGreatest(m) ==
    /\ m \in syncSet
    /\ \A o \in syncSet \ {m} : o.timestamp < m.timestamp

\* node n has applied every message of syncSet and applied m last
AllAppliedEndingWith(n, m) == applied[n] = syncSet /\ lastApplied[n] = Some(m)

\* C1 (as claimed): two stores that have each applied every message of the
\* set at least once, in any order and with any duplication, and whose last
\* applied message is the one with the strictly greatest timestamp of the
\* set, hold the same state for the key.
C1_Convergence ==
    \A m \in syncSet :
        (StrictlyGreatest(m) /\ \A n \in Nodes : AllAppliedEndingWith(n, m))
            => replica["A"] = replica["B"]

\* the sequences that hold each element of S exactly once
Perms(S) ==
    {f \in [1..Cardinality(S) -> S] :
        \A i, j \in 1..Cardinality(S) : i # j => f[i] # f[j]}

\* the orders of S by non-decreasing message timestamp
TimestampOrders(S) ==
    {seq \in Perms(S) :
        \A i \in 1..(Len(seq) - 1) : seq[i].timestamp <= seq[i + 1].timestamp}

RECURSIVE ApplySeq(_, _)
\* the store after the messages of seq have been applied to s, first to last
ApplySeq(s, seq) ==
    IF seq = <<>> THEN s ELSE ApplySeq(apply_sync(s, Head(seq)), Tail(seq))

\* the messages of S carry timestamps in pairwise distinct whole seconds
DistinctSeconds(S) ==
    \A m, o \in S : m # o => timestamp(m.timestamp) # timestamp(o.timestamp)

\* C10 (as claimed): applying the messages of a set in any permutation and
\* with any repetition leaves the same final state as applying each message
\* once in timestamp order. It is stated on the sets whose timestamps fall
\* in pairwise distinct whole seconds, where the timestamp order is unique
\* and the one-second granularity of the store plays no part.
C10_AnyOrderAsTimestampOrder ==
    \A n \in Nodes :
        (applied[n] = syncSet /\ DistinctSeconds(syncSet)) =>
            \A seq \in TimestampOrders(syncSet) : replica[n] = ApplySeq(<<>>, seq)

\* m is a Put whose whole-second timestamp is greater than that of every
\* other message of syncSet
NewestIsPut(m) ==
    /\ m \in syncSet
    /\ m.op = "Put"
    /\ \A o \in syncSet \ {m} : timestamp(o.timestamp) < timestamp(m.timestamp)

\* C10 (amended): when the message of greatest timestamp is a Put that is
\* newer than every other message by whole-second timestamp, applying the
\* set in any permutation and with any repetition leaves the same final
\* state as applying each message once in timestamp order: the key holds
\* that Put's value and timestamp.
C10_AnyOrderWhenNewestIsPut ==
    \A n \in Nodes : \A m \in syncSet :
        (NewestIsPut(m) /\ applied[n] = syncSet) =>
            /\ \A seq \in TimestampOrders(syncSet) : replica[n] = ApplySeq(<<>>, seq)
            /\ replica[n] = (m.key :> [value |-> m.value, timestamp |-> timestamp(m.timestamp)])

\* C10 witness: a node has applied a whole set of three messages, a Delete
\* among them, whose newest message is a Put, and the message it applied
\* last is not that Put (an out-of-order or repeated delivery).
C10_Witness ==
    \E m \in syncSet :
        /\ NewestIsPut(m)
        /\ Cardinality(syncSet) >= 3
        /\ \E o \in syncSet : o.op = "Delete"
        /\ applied["A"] = syncSet
        /\ lastApplied["A"] # Some(m)

(***************************************************************************)
(* crypto.rs and libp2p identity: keys and signatures                      *)
(*                                                                         *)
(* A public key is known by the peer that owns the matching private key.   *)
(* A signature records the private key that produced it and the data it    *)
(* was produced over; it verifies under a public key exactly when both     *)
(* match (no forgery, no hash collision).                                  *)
(***************************************************************************)
local_peer_id == "n"

PublicKey(p) == [owner |-> p]

\* PublicKey::to_peer_id, PeerId::from(public_key)
to_peer_id(public_key) == public_key.owner

encode_protobuf(public_key) == <<"ed25519", public_key.owner>>

\* bytes that are no encoding of a public key
GarbageBytes == <<"garbage">>

try_decode_protobuf(bytes) ==
    IF Len(bytes) = 2 /\ bytes[1] = "ed25519" THEN Some(PublicKey(bytes[2])) ELSE None

\* Keypair::sign by the keypair of peer p over the hash of data
sign(p, data) == [key |-> p, over |-> data]

\* PublicKey::verify
verify(public_key, data, signature) ==
    signature.key = public_key.owner /\ signature.over = data

\* bincode::serialize and Sha256::digest: different values have different
\* bytes, different bytes have different digests
serialize(data) == <<"bincode", data>>
Sha256_digest(bytes) == <<"sha256", bytes>>

\* SignedData::new with the keypair of peer p
SignedData_new(data, p) ==
    [data |-> data, signature |-> sign(p, Sha256_digest(serialize(data))), signer |-> p]

verify_with_public_key_any_signer(signed_data, public_key) ==
    verify(public_key, Sha256_digest(serialize(signed_data.data)), signed_data.signature)

\* SignedData::verify_with_public_key
verify_with_public_key(signed_data, public_key) ==
    IF signed_data.signer # to_peer_id(public_key)
    THEN FALSE
    ELSE verify(public_key, Sha256_digest(serialize(signed_data.data)), signed_data.signature)

\* SignedData::verify with the keypair of peer p
SignedData_verify(signed_data, p) ==
    LET public_key == PublicKey(p)
    IN  IF signed_data.signer # to_peer_id(public_key)
        THEN FALSE
        ELSE verify(public_key, Sha256_digest(serialize(signed_data.data)),
                    signed_data.signature)

(***************************************************************************)
(* whitelist.rs: PeerWhitelist.  wl = [db, cache]: the table peer_whitelist *)
(* and the in-memory set of peers.  An operation that can write returns    *)
(* the whitelist it leaves; t is Utc::now().                               *)
(***************************************************************************)
add_peer(wl, peer_id, name, public_key, expires_at, t) ==
    [db |-> Upsert(wl.db, peer_id,
                   [name |-> name,
                    public_key |-> IF public_key = None THEN None
                                   ELSE Some(encode_protobuf(public_key[1])),
                    added_at |-> t,
                    expires_at |-> expires_at,
                    recommended_by |-> <<>>,
                    recommendation_count |-> 0]),
     cache |-> wl.cache \cup {peer_id}]

remove_peer(wl, peer_id) ==
    [db |-> Without(wl.db, peer_id), cache |-> wl.cache \ {peer_id}]

\* SELECT expires_at FROM peer_whitelist WHERE peer_id = ?1 has a row with
\* an expiry that lies before t
Expired(wl, peer_id, t) ==
    /\ peer_id \in DOMAIN wl.db
    /\ wl.db[peer_id].expires_at # None
    /\ wl.db[peer_id].expires_at[1] < t

is_whitelisted(wl, peer_id, t) ==
    IF peer_id \in wl.cache
    THEN IF Expired(wl, peer_id, t)
         THEN [ok |-> FALSE, wl |-> remove_peer(wl, peer_id)]
         ELSE [ok |-> TRUE, wl |-> wl]
    ELSE IF peer_id \in DOMAIN wl.db
         THEN IF Expired(wl, peer_id, t)
              THEN [ok |-> FALSE, wl |-> wl]
              ELSE [ok |-> TRUE, wl |-> [wl EXCEPT !.cache = @ \cup {peer_id}]]
         ELSE [ok |-> FALSE, wl |-> wl]

\* the rows of the table; the callers look one row up by its peer_id (the
\* primary key) or go through all of them, so the order of the rows
\* (added_at DESC) does not show
list_peers(wl) == wl.db

get_public_key(wl, peer_id) ==
    IF peer_id \in DOMAIN wl.db /\ wl.db[peer_id].public_key # None
    THEN try_decode_protobuf(wl.db[peer_id].public_key[1])
    ELSE None

\* the calendar day of an instant
HoursPerDay == 24
SecondsPerHour == 3600
from_hours(n) == n * SecondsPerHour * TicksPerSecond
Date(t) == t \div from_hours(HoursPerDay)

\* expires_at IS NULL OR expires_at > datetime('now') compares the RFC 3339
\* text "<date>T<time>+00:00" with the text "<date> <time>": a different date
\* decides, and on the same date 'T' is greater than ' '
reload_cache(wl, t) ==
    [wl EXCEPT !.cache = {p \in DOMAIN wl.db :
                             \/ wl.db[p].expires_at = None
                             \/ Date(wl.db[p].expires_at[1]) >= Date(t)}]

\* the loop over entry.recommended_by of is_trusted_by_chain, from index i
RECURSIVE any_recommender_whitelisted(_, _, _, _)
any_recommender_whitelisted(wl, recommended_by, i, t) ==
    IF i > Len(recommended_by)
    THEN [ok |-> FALSE, wl |-> wl]
    ELSE LET r == is_whitelisted(wl, recommended_by[i], t)
         IN  IF r.ok THEN r ELSE any_recommender_whitelisted(r.wl, recommended_by, i + 1, t)

is_trusted_by_chain(wl, peer_id, t) ==
    LET r == is_whitelisted(wl, peer_id, t)
        entries == list_peers(r.wl)
    IN  IF r.ok
        THEN r
        ELSE IF peer_id \in DOMAIN entries /\ entries[peer_id].recommendation_count > 0
             THEN any_recommender_whitelisted(r.wl, entries[peer_id].recommended_by, 1, t)
             ELSE [ok |-> FALSE, wl |-> r.wl]

Elements(seq) == {seq[i] : i \in 1..Len(seq)}

\* add_recommendation without the test `!recommended_by.contains(..)`
add_recommendation_no_contains(wl, peer_id, recommender_id, name, t) ==
    LET r == is_whitelisted(wl, recommender_id, t)
        db1 == r.wl.db
        recommended_by == IF peer_id \in DOMAIN db1 THEN db1[peer_id].recommended_by ELSE <<>>
        recommendation_count ==
            IF peer_id \in DOMAIN db1 THEN db1[peer_id].recommendation_count ELSE 0
    IN  IF ~r.ok
        THEN [ok |-> FALSE, wl |-> r.wl]
        ELSE [ok |-> TRUE,
              wl |-> [r.wl EXCEPT !.db =
                        Upsert(db1, peer_id,
                               [name |-> name,
                                public_key |-> None,
                                added_at |-> t,
                                expires_at |-> None,
                                recommended_by |-> Append(recommended_by, recommender_id),
                                recommendation_count |-> recommendation_count + 1])]]

add_recommendation(wl, peer_id, recommender_id, name, t) ==
    LET r == is_whitelisted(wl, recommender_id, t)
        db1 == r.wl.db
        recommended_by == IF peer_id \in DOMAIN db1 THEN db1[peer_id].recommended_by ELSE <<>>
        recommendation_count ==
            IF peer_id \in DOMAIN db1 THEN db1[peer_id].recommendation_count ELSE 0
    IN  IF ~r.ok
        THEN [ok |-> FALSE, wl |-> r.wl]
        ELSE IF recommender_id \in Elements(recommended_by)
        THEN [ok |-> TRUE, wl |-> r.wl]
        ELSE [ok |-> TRUE,
              wl |-> [r.wl EXCEPT !.db =
                        Upsert(db1, peer_id,
                               [name |-> name,
                                public_key |-> None,
                                added_at |-> t,
                                expires_at |-> None,
                                recommended_by |-> Append(recommended_by, recommender_id),
                                recommendation_count |-> recommendation_count + 1])]]

(***************************************************************************)
(* key_distribution.rs: KeyDistributionManager.                            *)
(* kd = [config, pending_requests, processed_messages]; a handler returns  *)
(* the whitelist and the manager state it leaves, and its response.        *)
(***************************************************************************)
max_message_age_hours == 24
CleanupHours == 1
PendingMinutes == 5
SecondsPerMinute == 60

\* HashMap::retain(|_, timestamp| timestamp > cutoff)
Retain(f, cutoff) == [k \in {x \in DOMAIN f : f[x] > cutoff} |-> f[k]]

KeyResponse(target, public_key_bytes, t) ==
    [type |-> "KeyResponse", target |-> target, public_key |-> public_key_bytes, timestamp |-> t]

\* str::parse::<PeerId>: the strings that are a peer id are the names of the
\* peers and of the node itself
parse_peer_id(str) == IF str \in Peers \cup {local_peer_id} THEN Some(str) ELSE None

\* what a handler returns: Ok(response) or Err, with the state it leaves
Ok(wl, kd, response) == [wl |-> wl, kd |-> kd, response |-> response, err |-> FALSE]
Err(wl, kd) == [wl |-> wl, kd |-> kd, response |-> None, err |-> TRUE]

\* handle_key_request without the test `sender_peer_id != requestor_peer_id`
handle_key_request_any_sender(wl, kd, requestor, target, sender_peer_id, t) ==
    LET r == is_whitelisted(wl, requestor, t)
        public_key == get_public_key(r.wl, target)
    IN  IF parse_peer_id(requestor) = None \/ parse_peer_id(target) = None
        THEN Err(wl, kd)
        ELSE IF ~r.ok \/ ~kd.config.auto_share_keys
        THEN Ok(r.wl, kd, None)
        ELSE IF target = local_peer_id
        THEN Ok(r.wl, kd, Some(KeyResponse(local_peer_id,
                                            encode_protobuf(PublicKey(local_peer_id)), t)))
        ELSE IF public_key # None
        THEN Ok(r.wl, kd, Some(KeyResponse(target, encode_protobuf(public_key[1]), t)))
        ELSE Ok(r.wl, kd, None)

handle_key_request(wl, kd, requestor, target, sender_peer_id, t) ==
    LET r == is_whitelisted(wl, requestor, t)
        public_key == get_public_key(r.wl, target)
    IN  IF parse_peer_id(requestor) = None \/ parse_peer_id(target) = None
        THEN Err(wl, kd)
        ELSE IF sender_peer_id # requestor
        THEN Ok(wl, kd, None)
        ELSE IF ~r.ok \/ ~kd.config.auto_share_keys
        THEN Ok(r.wl, kd, None)
        ELSE IF target = local_peer_id
        THEN Ok(r.wl, kd, Some(KeyResponse(local_peer_id,
                                            encode_protobuf(PublicKey(local_peer_id)), t)))
        ELSE IF public_key # None
        THEN Ok(r.wl, kd, Some(KeyResponse(target, encode_protobuf(public_key[1]), t)))
        ELSE Ok(r.wl, kd, None)

\* the tail shared by handle_key_response and handle_key_announcement: the
\* row of peer_id, if there is one, is rewritten with the key
update_public_key(wl, peer_id, public_key_obj, t) ==
    LET entries == list_peers(wl)
    IN  IF peer_id \in DOMAIN entries
        THEN add_peer(wl, peer_id, entries[peer_id].name, Some(public_key_obj),
                      entries[peer_id].expires_at, t)
        ELSE wl

handle_key_response(wl, kd, target, public_key, sender_peer_id, t) ==
    LET r1 == is_whitelisted(wl, sender_peer_id, t)
        public_key_obj == try_decode_protobuf(public_key)
        kd1 == [kd EXCEPT !.pending_requests = Without(@, target)]
        r2 == is_whitelisted(r1.wl, target, t)
    IN  IF parse_peer_id(target) = None
        THEN Err(wl, kd)
        ELSE IF ~r1.ok
        THEN Ok(r1.wl, kd, None)
        ELSE IF public_key_obj = None
        THEN Err(r1.wl, kd)
        ELSE IF to_peer_id(public_key_obj[1]) # target
        THEN Ok(r1.wl, kd, None)
        ELSE IF r2.ok
        THEN Ok(update_public_key(r2.wl, target, public_key_obj[1], t), kd1, None)
        ELSE Ok(r2.wl, kd1, None)

\* handle_key_announcement without the test `sender_peer_id != announced_peer_id`
handle_key_announcement_any_sender(wl, kd, peer_id, public_key, sender_peer_id, t) ==
    LET r == is_whitelisted(wl, sender_peer_id, t)
        public_key_obj == try_decode_protobuf(public_key)
    IN  IF parse_peer_id(peer_id) = None
        THEN Err(wl, kd)
        ELSE IF ~r.ok
        THEN Ok(r.wl, kd, None)
        ELSE IF public_key_obj = None
        THEN Err(r.wl, kd)
        ELSE IF to_peer_id(public_key_obj[1]) # peer_id
        THEN Ok(r.wl, kd, None)
        ELSE Ok(update_public_key(r.wl, peer_id, public_key_obj[1], t), kd, None)

handle_key_announcement(wl, kd, peer_id, public_key, sender_peer_id, t) ==
    LET r == is_whitelisted(wl, sender_peer_id, t)
        public_key_obj == try_decode_protobuf(public_key)
    IN  IF parse_peer_id(peer_id) = None
        THEN Err(wl, kd)
        ELSE IF sender_peer_id # peer_id
        THEN Ok(wl, kd, None)
        ELSE IF ~r.ok
        THEN Ok(r.wl, kd, None)
        ELSE IF public_key_obj = None
        THEN Err(r.wl, kd)
        ELSE IF to_peer_id(public_key_obj[1]) # peer_id
        THEN Ok(r.wl, kd, None)
        ELSE Ok(update_public_key(r.wl, peer_id, public_key_obj[1], t), kd, None)

\* handle_whitelist_request adding the peer whose request passes the checks
handle_whitelist_request_adds(wl, kd, peer_id, public_key, name, sender_peer_id) ==
    IF ~kd.config.accept_whitelist_requests
    THEN Ok(wl, kd, None)
    ELSE IF parse_peer_id(peer_id) = None
    THEN Err(wl, kd)
    ELSE IF sender_peer_id # peer_id
    THEN Ok(wl, kd, None)
    ELSE IF try_decode_protobuf(public_key) = None
    THEN Err(wl, kd)
    ELSE IF to_peer_id(try_decode_protobuf(public_key)[1]) # peer_id
    THEN Ok(wl, kd, None)
    ELSE Ok(add_peer(wl, peer_id, name, try_decode_protobuf(public_key), None, 0), kd, None)

\* with accept_whitelist_requests the request is checked and logged, nothing
\* is stored
handle_whitelist_request(wl, kd, peer_id, public_key, name, sender_peer_id) ==
    IF ~kd.config.accept_whitelist_requests
    THEN Ok(wl, kd, None)
    ELSE IF parse_peer_id(peer_id) = None
    THEN Err(wl, kd)
    ELSE IF sender_peer_id # peer_id
    THEN Ok(wl, kd, None)
    ELSE IF try_decode_protobuf(public_key) = None
    THEN Err(wl, kd)
    ELSE Ok(wl, kd, None)

\* handle_trust_recommendation without the test
\* `sender_peer_id != recommender_peer_id`
handle_trust_recommendation_any_sender(wl, kd, recommender, recommended, name, sender_peer_id, t) ==
    LET r == is_whitelisted(wl, recommender, t)
    IN  IF parse_peer_id(recommender) = None \/ parse_peer_id(recommended) = None
        THEN Err(wl, kd)
        ELSE IF ~r.ok
        THEN Ok(r.wl, kd, None)
        ELSE IF recommender = recommended
        THEN Ok(r.wl, kd, None)
        ELSE Ok(add_recommendation(r.wl, recommended, recommender, name, t).wl, kd, None)

handle_trust_recommendation(wl, kd, recommender, recommended, name, sender_peer_id, t) ==
    LET r == is_whitelisted(wl, recommender, t)
    IN  IF parse_peer_id(recommender) = None \/ parse_peer_id(recommended) = None
        THEN Err(wl, kd)
        ELSE IF sender_peer_id # recommender
        THEN Ok(wl, kd, None)
        ELSE IF ~r.ok
        THEN Ok(r.wl, kd, None)
        ELSE IF recommender = recommended
        THEN Ok(r.wl, kd, None)
        ELSE Ok(add_recommendation(r.wl, recommended, recommender, name, t).wl, kd, None)

\* format!("{:?}:{:?}", message.data, message.signature)
message_id(message) == <<message.data, message.signature>>

\* the match on message.data
dispatch(wl, kd, data, sender_peer_id, t) ==
    CASE data.type = "KeyRequest" ->
            handle_key_request(wl, kd, data.requestor, data.target, sender_peer_id, t)
      [] data.type = "KeyResponse" ->
            handle_key_response(wl, kd, data.target, data.public_key, sender_peer_id, t)
      [] data.type = "KeyAnnouncement" ->
            handle_key_announcement(wl, kd, data.peer_id, data.public_key, sender_peer_id, t)
      [] data.type = "WhitelistRequest" ->
            handle_whitelist_request(wl, kd, data.peer_id, data.public_key, data.name,
                                     sender_peer_id)
      [] data.type = "TrustRecommendation" ->
            handle_trust_recommendation(wl, kd, data.recommender, data.recommended,
                                        data.name, sender_peer_id, t)

handle_message(wl, kd, message, sender_peer_id, t) ==
    LET max_age == from_hours(max_message_age_hours)
        kd1 == [kd EXCEPT !.processed_messages =
                   Retain(Upsert(@, message_id(message), t), t - max_age)]
        r == dispatch(wl, kd1, message.data, sender_peer_id, t)
    IN  IF t - message.data.timestamp > max_age
        THEN [wl |-> wl, kd |-> kd, response |-> None, err |-> FALSE, outcome |-> "too_old"]
        ELSE IF message_id(message) \in DOMAIN kd.processed_messages
        THEN [wl |-> wl, kd |-> kd, response |-> None, err |-> FALSE, outcome |-> "replayed"]
        ELSE [wl |-> r.wl, kd |-> r.kd, response |-> r.response, err |-> r.err,
              outcome |-> IF r.err THEN "error" ELSE "processed"]

\* the peers request_missing_keys asks a key for: the rows without a public
\* key that have no request younger than five minutes pending
MissingKeys(wl, kd, t) ==
    {p \in DOMAIN list_peers(wl) :
        /\ wl.db[p].public_key = None
        /\ ~(/\ p \in DOMAIN kd.pending_requests
             /\ t - kd.pending_requests[p] < PendingMinutes * SecondsPerMinute * TicksPerSecond)}

request_missing_keys(wl, kd, t) ==
    IF ~kd.config.auto_request_keys
    THEN kd
    ELSE [kd EXCEPT !.pending_requests =
            [p \in DOMAIN kd.pending_requests \cup MissingKeys(wl, kd, t) |->
                IF p \in MissingKeys(wl, kd, t) THEN t ELSE kd.pending_requests[p]]]

cleanup(kd, t) ==
    [kd EXCEPT !.pending_requests = Retain(@, t - from_hours(CleanupHours)),
               !.processed_messages = Retain(@, t - from_hours(CleanupHours))]

(***************************************************************************)
(* security.rs, connection_manager.rs: access control and the registry of  *)
(* active connections.  cm = [active_connections, connections_per_ip]      *)
(***************************************************************************)
max_connections_per_ip == 2
IPs == {"10.0.0.1"}

check_peer_allowed_allowlist_first(ac, wl, peer_id, t) ==
    IF ac.whitelist
    THEN is_whitelisted(wl, peer_id, t)
    ELSE IF ac.allowed_peers # None
    THEN [ok |-> peer_id \in ac.allowed_peers[1], wl |-> wl]
    ELSE [ok |-> peer_id \notin ac.blocked_peers, wl |-> wl]

\* AccessControl::check_peer_allowed; ac = [blocked_peers, allowed_peers,
\* whitelist]: the two lists of the SecurityConfig and whether a PeerWhitelist
\* is attached
check_peer_allowed(ac, wl, peer_id, t) ==
    IF peer_id \in ac.blocked_peers
    THEN [ok |-> FALSE, wl |-> wl]
    ELSE IF ac.whitelist
    THEN is_whitelisted(wl, peer_id, t)
    ELSE IF ac.allowed_peers # None
    THEN [ok |-> peer_id \in ac.allowed_peers[1], wl |-> wl]
    ELSE [ok |-> TRUE, wl |-> wl]

check_connection_limit_off_by_one(per_ip, ip) ==
    LET count == IF ip \in DOMAIN per_ip THEN per_ip[ip] ELSE 0
    IN  IF count > max_connections_per_ip
        THEN [ok |-> FALSE, connections_per_ip |-> Upsert(per_ip, ip, count)]
        ELSE [ok |-> TRUE, connections_per_ip |-> Upsert(per_ip, ip, count + 1)]

check_connection_limit(per_ip, ip) ==
    LET count == IF ip \in DOMAIN per_ip THEN per_ip[ip] ELSE 0
    IN  IF count >= max_connections_per_ip
        THEN [ok |-> FALSE, connections_per_ip |-> Upsert(per_ip, ip, count)]
        ELSE [ok |-> TRUE, connections_per_ip |-> Upsert(per_ip, ip, count + 1)]

\* a release that does not give the slot back
release_connection_keeps_slot(per_ip, ip) == per_ip

\* AccessControl::release_connection
release_connection(per_ip, ip) ==
    IF ip \in DOMAIN per_ip
    THEN IF per_ip[ip] <= 1
         THEN Without(per_ip, ip)
         ELSE Upsert(per_ip, ip, per_ip[ip] - 1)
    ELSE per_ip

handle_incoming_connection(ac, cm, wl, peer_id, remote_addr, t) ==
    LET limit == check_connection_limit(cm.connections_per_ip, remote_addr)
        allowed == check_peer_allowed(ac, wl, peer_id, t)
    IN  IF ~limit.ok
        THEN [cm |-> [cm EXCEPT !.connections_per_ip = limit.connections_per_ip], wl |-> wl]
        ELSE IF ~allowed.ok
        THEN [cm |-> [cm EXCEPT !.connections_per_ip = limit.connections_per_ip],
              wl |-> allowed.wl]
        ELSE [cm |-> [active_connections |-> Upsert(cm.active_connections, peer_id, remote_addr),
                      connections_per_ip |-> limit.connections_per_ip],
              wl |-> allowed.wl]

handle_connection_closed(cm, peer_id) ==
    IF peer_id \in DOMAIN cm.active_connections
    THEN [active_connections |-> Without(cm.active_connections, peer_id),
          connections_per_ip |->
              release_connection(cm.connections_per_ip, cm.active_connections[peer_id])]
    ELSE cm

(***************************************************************************)
(* security.rs: input validation.  A text (String) is a sequence of        *)
(* characters; lengths are counted in UTF-8 bytes and the limits are       *)
(* scaled down.                                                            *)
(***************************************************************************)
TAB == "TAB"
LF == "LF"
NUL == "NUL"
EAcute == "e-acute"

\* char::len_utf8
len_utf8(c) == IF c = EAcute THEN 2 ELSE 1

\* char::is_control
is_control(c) == c \in {TAB, LF, NUL}

RECURSIVE len(_)
\* str::len: the number of bytes
len(text) == IF text = <<>> THEN 0 ELSE len_utf8(Head(text)) + len(Tail(text))

\* str::contains
contains(text, pat) ==
    \E i \in 1..(Len(text) - Len(pat) + 1) : SubSeq(text, i, i + Len(pat) - 1) = pat

\* str::starts_with
starts_with(text, c) == text # <<>> /\ Head(text) = c

\* str::is_empty
is_empty(text) == text = <<>>

\* SecurityConfig::default of the size and length limits, and the limits
\* handle_gossipsub_event passes to validate_key and validate_value
max_message_size == 6
max_key_length == 3
max_value_length == 2
GossipMaxKeyLength == 3
GossipMaxValueLength == 2

\* validate_key: TRUE for Ok(()), FALSE for the bail! cases
validate_key(key, max_length) ==
    IF is_empty(key)
    THEN FALSE
    ELSE IF len(key) > max_length
    THEN FALSE
    ELSE IF \E i \in 1..Len(key) : is_control(key[i]) /\ key[i] # TAB /\ key[i] # LF
    THEN FALSE
    ELSE IF contains(key, <<".", ".">>) \/ contains(key, <<"/", "/">>) \/ starts_with(key, "/")
    THEN FALSE
    ELSE TRUE

\* validate_value
validate_value(value, max_length) == ~(len(value) > max_length)

\* sanitize_input: drops the control characters other than tab and newline
\* (the texts of the model are all shorter than the 1024 characters kept)
sanitize_input(input) ==
    SelectSeq(input, LAMBDA c : ~is_control(c) \/ c = TAB \/ c = LF)

(***************************************************************************)
(* main.rs: handle_gossipsub_event, the inbound pipeline                   *)
(***************************************************************************)
signature_ok_unchecked(wl, signed_data, signer_peer_id) == TRUE

\* a check that refuses a signer without a stored public key
signature_ok_key_required(wl, signed_data, signer_peer_id) ==
    LET public_key == get_public_key(wl, signer_peer_id)
    IN  public_key # None /\ verify_with_public_key(signed_data, public_key[1])

\* "Verify signature if public key is available"
signature_ok(wl, signed_data, signer_peer_id) ==
    LET public_key == get_public_key(wl, signer_peer_id)
    IN  IF public_key # None
        THEN verify_with_public_key(signed_data, public_key[1])
        ELSE TRUE

\* the sync message passes the input validation of its arm
sync_valid(sync_msg) ==
    IF sync_msg.op = "Put"
    THEN /\ validate_key(sync_msg.key, GossipMaxKeyLength)
         /\ validate_value(sync_msg.value, GossipMaxValueLength)
    ELSE validate_key(sync_msg.key, GossipMaxKeyLength)

\* the arm for P2PMessage::Sync, with its input validation
handle_sync(s, sync_msg) ==
    IF ~sync_valid(sync_msg)
    THEN s
    ELSE IF sync_msg.op = "Put"
    THEN put_with_timestamp(s, sync_msg.key, sync_msg.value, sync_msg.timestamp)
    ELSE delete_with_timestamp(s, sync_msg.key, sync_msg.timestamp)

contains_key_unchecked(cm, peer_id) == TRUE

\* connection_manager.get_active_connections().contains_key(&peer_id)
contains_key(cm, peer_id) == peer_id \in DOMAIN cm.active_connections

\* what SQLite does during one run of the handler: it works, or the
\* whitelist database fails at the first query, or the store fails at the
\* write
Faults == {"none", "whitelist", "store"}

\* node = [requests, cm, store, wl, kd]; the result is the node the handler
\* leaves, the step at which it returned and whether it returned Err
handle_gossipsub_event(node, peer_id, message, fault, t) ==
    LET rate == check_rate_limit(node.requests, peer_id, t)
        n1 == [node EXCEPT !.requests = rate.requests]
        trusted == is_trusted_by_chain(node.wl, message.signer, t)
        n2 == [n1 EXCEPT !.wl = trusted.wl]
        kdr == handle_message(n2.wl, n2.kd, [data |-> message.data.kd,
                                             signature |-> message.signature,
                                             signer |-> message.signer],
                              message.signer, t)
    IN  IF ~rate.ok
        THEN [node |-> n1, outcome |-> "rate_limited", err |-> FALSE]
        ELSE IF ~contains_key(node.cm, peer_id)
        THEN [node |-> n1, outcome |-> "unknown_peer", err |-> FALSE]
        ELSE IF message.shape # "signed"
        THEN [node |-> n1, outcome |-> message.shape, err |-> FALSE]
        ELSE IF fault = "whitelist"
        THEN [node |-> n1, outcome |-> "error", err |-> TRUE]
        ELSE IF ~trusted.ok
        THEN [node |-> n2, outcome |-> "untrusted", err |-> FALSE]
        ELSE IF ~signature_ok(n2.wl, message, message.signer)
        THEN [node |-> n2, outcome |-> "bad_signature", err |-> FALSE]
        ELSE IF message.data.type = "Sync"
        THEN IF fault = "store" /\ sync_valid(message.data.sync)
             THEN [node |-> n2, outcome |-> "error", err |-> TRUE]
             ELSE [node |-> [n2 EXCEPT !.store = handle_sync(@, message.data.sync)],
                   outcome |-> "sync", err |-> FALSE]
        ELSE [node |-> [n2 EXCEPT !.wl = kdr.wl, !.kd = kdr.kd], outcome |-> kdr.outcome,
              err |-> kdr.err]

(***************************************************************************)
(* The node: whitelist, connection registry, rate limiter, store and       *)
(* key-distribution manager behind the inbound pipeline (SpecNode)         *)
(***************************************************************************)

\* the timestamps carried by key-distribution messages: one that is exactly
\* max_message_age_hours old when the node starts, one of the start instant
MsgTimes == {0 - from_hours(max_message_age_hours), 0}

\* the key-distribution messages of the model, each with the peer that
\* issues it
KeyDistributionMessages ==
    {[type |-> "TrustRecommendation", recommender |-> "w", recommended |-> "x",
      name |-> None, timestamp |-> 0],
     [type |-> "TrustRecommendation", recommender |-> "x", recommended |-> "y",
      name |-> None, timestamp |-> 0],
     [type |-> "KeyRequest", requestor |-> "w", target |-> local_peer_id, timestamp |-> 0],
     [type |-> "KeyResponse", target |-> "x",
      public_key |-> encode_protobuf(PublicKey("x")), timestamp |-> 0],
     [type |-> "WhitelistRequest", peer_id |-> "y",
      public_key |-> encode_protobuf(PublicKey("y")), name |-> None, timestamp |-> 0]}
    \cup [type : {"KeyAnnouncement"}, peer_id : {"w"},
          public_key : {encode_protobuf(PublicKey("w"))}, timestamp : MsgTimes]

Issuer(m) ==
    CASE m.type = "TrustRecommendation" -> m.recommender
      [] m.type = "KeyRequest" -> m.requestor
      [] m.type = "KeyResponse" -> "w"
      [] m.type = "WhitelistRequest" -> m.peer_id
      [] m.type = "KeyAnnouncement" -> m.peer_id

NodeSyncMessages ==
    {[op |-> "Put", key |-> <<"a">>, value |-> <<"a">>, timestamp |-> 0],
     [op |-> "Delete", key |-> <<"a">>, value |-> <<>>, timestamp |-> TicksPerSecond],
     [op |-> "Put", key |-> <<>>, value |-> <<"a">>, timestamp |-> 0]}

\* SignedData::new by the issuer of each message (a sync message comes
\* from w or from x)
AuthenticMessages ==
    {SignedData_new([type |-> "KeyDistribution", kd |-> m], Issuer(m)) :
        m \in KeyDistributionMessages}
    \cup {SignedData_new([type |-> "Sync", sync |-> m], p) :
            m \in NodeSyncMessages, p \in {"w", "x"}}

\* the same envelopes with a signature made by the key of y instead
ForgedMessages ==
    {[m EXCEPT !.signature = sign("y", Sha256_digest(serialize(m.data)))] :
        m \in AuthenticMessages}

\* what gossipsub can hand to the node: a SignedData<P2PMessage>, authentic
\* or forged, or a payload that is too large, does not decode, or names a
\* signer that is no peer id
GossipMessages ==
    {[shape |-> "signed", data |-> m.data, signature |-> m.signature, signer |-> m.signer] :
        m \in AuthenticMessages \cup ForgedMessages}
    \cup {[shape |-> sh, data |-> [type |-> "none"],
           signature |-> sign("", [type |-> "none"]), signer |-> ""] :
            sh \in {"too_large", "undecodable", "bad_signer"}}

\* the peer that connects to the node and forwards gossip to it, and the
\* peer the operator whitelists
Neighbours == {"w"}
OperatorPeers == {"w"}

\* the options of `whitelist add`
OperatorName == Some("alice")
ExpiresInHours == {None, Some(0)}

Node ==
    [requests |-> requests,
     cm |-> [active_connections |-> active_connections,
             connections_per_ip |-> connections_per_ip],
     store |-> store,
     wl |-> [db |-> db, cache |-> cache],
     kd |-> [config |-> key_dist_config,
             pending_requests |-> pending_requests,
             processed_messages |-> processed_messages]]

InitNode ==
    /\ now = 0
    /\ StoreInit
    /\ ReplicasInit
    /\ RateInit
    /\ NodeInit
    /\ UnitInit

\* the peers add_peer has written a row for, so far
DirectAfter(newdb) == everDirect \cup {p \in DOMAIN newdb : newdb[p].recommendation_count = 0}

\* the steps of handle_gossipsub_event from the signature check on
ReachedVerification == {"bad_signature", "sync", "processed", "replayed", "too_old"}
Dispatched == {"sync", "processed", "replayed", "too_old"}

\* gossipsub::Event::Message from the connected peer peer_id; an Err of the
\* handler goes up through handle_behaviour_event and handle_swarm_event to
\* the `?` of the loop of run_node, which returns
GossipMessage(peer_id, message, fault) ==
    \E r \in {handle_gossipsub_event(Node, peer_id, message, fault, now)},
       stored \in {get_public_key(is_trusted_by_chain(Node.wl, message.signer, now).wl,
                                  message.signer)} :
      \E n \in {r.node}, keyed \in {r.outcome \in ReachedVerification /\ stored # None} :
        /\ running
        /\ running' = ~r.err
        /\ requests' = n.requests
        /\ store' = n.store
        /\ db' = n.wl.db
        /\ cache' = n.wl.cache
        /\ pending_requests' = n.kd.pending_requests
        /\ processed_messages' = n.kd.processed_messages
        /\ everDirect' = DirectAfter(n.wl.db)
        /\ mutations' = IF /\ r.outcome \in {"processed", "replayed", "too_old"}
                           /\ (n.wl.db # db \/ n.kd.pending_requests # pending_requests)
                        THEN LET id == message_id([data |-> message.data.kd,
                                                   signature |-> message.signature])
                             IN  Upsert(mutations, id,
                                        IF id \in DOMAIN mutations THEN mutations[id] + 1
                                        ELSE 1)
                        ELSE mutations
        /\ lastGossip' =
             [outcome |-> r.outcome,
              keyed |-> keyed,
              verified |-> keyed /\ verify_with_public_key(message, stored[1]),
              changed |-> {c \in {"store", "db", "cache", "kd"} :
                             \/ c = "store" /\ n.store # store
                             \/ c = "db" /\ n.wl.db # db
                             \/ c = "cache" /\ n.wl.cache # cache
                             \/ c = "kd" /\ n.kd # Node.kd},
              trust_gain |->
                 IF /\ r.outcome = "processed"
                    /\ message.data.kd.type = "TrustRecommendation"
                    /\ ~is_trusted_by_chain(Node.wl, message.data.kd.recommended, now).ok
                    /\ is_trusted_by_chain(n.wl, message.data.kd.recommended, now).ok
                 THEN Some([issuer |-> message.signer,
                            recommended |-> message.data.kd.recommended])
                 ELSE None]
        /\ UNCHANGED <<now, active_connections, connections_per_ip, lastOp, hist,
                       replicaVars, admitted, lastCheck, calls, unitVars>>

\* SwarmEvent::ConnectionEstablished
ConnectionEstablished(peer_id, ip) ==
    LET r == handle_incoming_connection(config, Node.cm, Node.wl, peer_id, ip, now)
    IN  /\ running
        /\ active_connections' = r.cm.active_connections
        /\ connections_per_ip' = r.cm.connections_per_ip
        /\ db' = r.wl.db
        /\ cache' = r.wl.cache
        /\ UNCHANGED <<now, storeVars, replicaVars, rateVars, unitVars, pending_requests,
                       processed_messages, everDirect, mutations, lastGossip, running>>

\* SwarmEvent::ConnectionClosed
ConnectionClosed(peer_id) ==
    LET cm == handle_connection_closed(Node.cm, peer_id)
    IN  /\ running
        /\ active_connections' = cm.active_connections
        /\ connections_per_ip' = cm.connections_per_ip
        /\ UNCHANGED <<now, storeVars, replicaVars, rateVars, unitVars, db, cache, pending_requests,
                       processed_messages, everDirect, mutations, lastGossip, running>>

\* `whitelist add`, run by the operator in a process of its own: it writes
\* the table, the cache of the running node does not see it
WhitelistAdd(peer_id, with_key, expires_in_hours) ==
    LET public_key == IF with_key THEN Some(PublicKey(peer_id)) ELSE None
        expires_at == IF expires_in_hours = None THEN None
                      ELSE Some(now + from_hours(expires_in_hours[1]))
    IN  /\ db' = add_peer([db |-> db, cache |-> {}], peer_id, OperatorName, public_key,
                          expires_at, now).db
        /\ everDirect' = everDirect \cup {peer_id}
        /\ UNCHANGED <<now, storeVars, replicaVars, rateVars, unitVars, cache, pending_requests,
                       processed_messages, active_connections, connections_per_ip,
                       mutations, lastGossip, running>>

\* `whitelist remove`, likewise
WhitelistRemove(peer_id) ==
    /\ db' = remove_peer([db |-> db, cache |-> {}], peer_id).db
    /\ UNCHANGED <<now, storeVars, replicaVars, rateVars, unitVars, cache, pending_requests,
                   processed_messages, active_connections, connections_per_ip,
                   everDirect, mutations, lastGossip, running>>

\* the command `cleanup`
Cleanup ==
    LET kd == cleanup(Node.kd, now)
    IN  /\ running
        /\ pending_requests' = kd.pending_requests
        /\ processed_messages' = kd.processed_messages
        /\ UNCHANGED <<now, storeVars, replicaVars, rateVars, unitVars, db, cache,
                       active_connections, connections_per_ip, everDirect, mutations,
                       lastGossip, running>>

\* the command `reload-cache`
ReloadCache ==
    /\ running
    /\ cache' = reload_cache(Node.wl, now).cache
    /\ UNCHANGED <<now, storeVars, replicaVars, rateVars, unitVars, db, pending_requests,
                   processed_messages, active_connections, connections_per_ip,
                   everDirect, mutations, lastGossip, running>>

\* the command `request-keys`
RequestKeys ==
    /\ running
    /\ pending_requests' = request_missing_keys(Node.wl, Node.kd, now).pending_requests
    /\ UNCHANGED <<now, storeVars, replicaVars, rateVars, unitVars, db, cache, processed_messages,
                   active_connections, connections_per_ip, everDirect, mutations,
                   lastGossip, running>>

\* an hour passes
AdvanceClock ==
    /\ now < from_hours(MaxHours)
    /\ now' = now + from_hours(1)
    /\ UNCHANGED <<storeVars, replicaVars, rateVars, unitVars, nodeVars>>

\* the node under sync and key-distribution traffic, with its operator
\* editing the whitelist
NextNode ==
    \/ \E peer_id \in Neighbours, message \in GossipMessages :
          GossipMessage(peer_id, message, "none")
    \/ \E peer_id \in Neighbours, ip \in IPs : ConnectionEstablished(peer_id, ip)
    \/ \E peer_id \in Neighbours : ConnectionClosed(peer_id)
    \/ \E peer_id \in OperatorPeers, with_key \in BOOLEAN, expires_in_hours \in ExpiresInHours :
          WhitelistAdd(peer_id, with_key, expires_in_hours)
    \/ \E peer_id \in OperatorPeers : WhitelistRemove(peer_id)
    \/ ReloadCache
    \/ AdvanceClock

SpecNode == InitNode /\ [][NextNode]_vars

\* the gossip messages that carry a key-distribution message
KeyDistributionGossip == {m \in GossipMessages : m.data.type = "KeyDistribution"}

\* the node under key-distribution traffic, with the maintenance commands
NextKD ==
    \/ \E peer_id \in Neighbours, message \in KeyDistributionGossip :
          GossipMessage(peer_id, message, "none")
    \/ \E peer_id \in Neighbours, ip \in IPs : ConnectionEstablished(peer_id, ip)
    \/ \E peer_id \in OperatorPeers, with_key \in BOOLEAN, expires_in_hours \in ExpiresInHours :
          WhitelistAdd(peer_id, with_key, expires_in_hours)
    \/ \E peer_id \in OperatorPeers : WhitelistRemove(peer_id)
    \/ Cleanup
    \/ RequestKeys
    \/ AdvanceClock

SpecKD == InitNode /\ [][NextKD]_vars

\* C2 (as stated): a message the pipeline dispatches while the whitelist
\* holds a public key for its signer has passed verify_with_public_key
\* against that key, and a message for which the check returns false is
\* dropped without changing the store, the whitelist (table or cache) or the
\* key-distribution state.
C2_SignatureAuthenticity ==
    /\ (lastGossip.outcome \in Dispatched /\ lastGossip.keyed) => lastGossip.verified
    /\ (lastGossip.keyed /\ ~lastGossip.verified) =>
          lastGossip.outcome = "bad_signature" /\ lastGossip.changed = {}

\* C2 (amended): a message the pipeline dispatches while the whitelist holds
\* a public key for its signer has passed verify_with_public_key against
\* that key, and a message for which the check returns false is dropped
\* without changing the store, the whitelist table or the key-distribution
\* state; the trust check made before it may have put the signer into the
\* whitelist's in-memory cache.
C2_AuthenticityUpToCache ==
    /\ (lastGossip.outcome \in Dispatched /\ lastGossip.keyed) => lastGossip.verified
    /\ (lastGossip.keyed /\ ~lastGossip.verified) =>
          lastGossip.outcome = "bad_signature" /\ lastGossip.changed \subseteq {"cache"}

\* C2 witness: a message whose signature does not verify against the stored
\* key of its signer was dropped after the store had taken a verified put.
C2_Witness ==
    /\ lastGossip.outcome = "bad_signature"
    /\ lastGossip.keyed
    /\ store # <<>>

\* C3: a TrustRecommendation that makes its target pass is_trusted_by_chain
\* was issued by a peer that add_peer has whitelisted directly, never by a
\* peer that owes its row to a recommendation alone.
C3_OneHopOnly ==
    lastGossip.trust_gain # None => lastGossip.trust_gain[1].issuer \in everDirect

\* C4: of all the deliveries of one signed key-distribution message to
\* handle_message, at most one changes the whitelist table or the
\* pending-request map.
C4_ReplayImmunity ==
    \A id \in DOMAIN mutations : mutations[id] <= 1

\* C16: a message whose transport sender is not in the connection registry
\* when it arrives changes neither the store, nor the whitelist (table or
\* cache), nor the replay cache, nor the pending-request map; a peer enters
\* the registry only by a connection-established event on which both
\* check_connection_limit and check_peer_allowed succeeded, and the
\* connection-closed event of a peer takes it out.
C16_UnboundSenderDropped ==
    [][\A peer_id \in Neighbours :
          /\ peer_id \notin DOMAIN active_connections =>
                \/ UNCHANGED <<store, db, cache, processed_messages, pending_requests>>
                \/ \A message \in GossipMessages : ~GossipMessage(peer_id, message, "none")
          /\ (peer_id \notin DOMAIN active_connections /\ peer_id \in DOMAIN active_connections') =>
                \E ip \in IPs :
                    /\ ConnectionEstablished(peer_id, ip)
                    /\ check_connection_limit(connections_per_ip, ip).ok
                    /\ check_peer_allowed(config, Node.wl, peer_id, now).ok
          /\ ConnectionClosed(peer_id) => peer_id \notin DOMAIN active_connections'
      ]_vars

\* C16 witness: a message from a peer that was not in the registry was
\* dropped while the whitelist held a row for that peer.
C16_Witness ==
    /\ lastGossip.outcome = "unknown_peer"
    /\ active_connections = <<>>
    /\ Neighbours \subseteq DOMAIN db

\* key-distribution payloads a peer can sign that carry bytes which are no
\* public key, or a string which is no peer id
MalformedMessages ==
    {[type |-> "KeyResponse", target |-> "x", public_key |-> GarbageBytes, timestamp |-> 0],
     [type |-> "TrustRecommendation", recommender |-> "w", recommended |-> "?",
      name |-> None, timestamp |-> 0]}

\* what gossipsub can hand to the node, the malformed payloads included,
\* each signed by w
PipelineMessages ==
    GossipMessages
    \cup {[shape |-> "signed", data |-> m.data, signature |-> m.signature, signer |-> m.signer] :
            m \in {SignedData_new([type |-> "KeyDistribution", kd |-> d], "w") :
                     d \in MalformedMessages}}

\* the node under every kind of inbound message, with a database that can
\* fail
NextPipeline ==
    \/ \E peer_id \in Neighbours, message \in PipelineMessages, fault \in Faults :
          GossipMessage(peer_id, message, fault)
    \/ \E peer_id \in Neighbours, ip \in IPs : ConnectionEstablished(peer_id, ip)
    \/ \E peer_id \in OperatorPeers, with_key \in BOOLEAN, expires_in_hours \in ExpiresInHours :
          WhitelistAdd(peer_id, with_key, expires_in_hours)
    \/ AdvanceClock

SpecPipeline == InitNode /\ [][NextPipeline]_vars

\* C17: whatever message is delivered, and whatever the database does while
\* it is handled, the event loop of the node keeps running.
C17_LoopGoesOn == running

\* C30: a message from a connected sender within its rate limit, whose
\* envelope names a signer that is trusted by chain and has no stored public
\* key, is dispatched whatever its signature is: a sync message goes to the
\* store, a key-distribution message to handle_message.
C30_NoKeyNoSignatureCheck ==
    [][\A peer_id \in Neighbours, message \in GossipMessages :
          (/\ requests' # requests
           /\ message.shape = "signed"
           /\ peer_id \in DOMAIN active_connections
           /\ check_rate_limit(requests, peer_id, now).ok
           /\ is_trusted_by_chain(Node.wl, message.signer, now).ok
           /\ get_public_key(is_trusted_by_chain(Node.wl, message.signer, now).wl,
                             message.signer) = None
           /\ GossipMessage(peer_id, message, "none")) =>
             /\ lastGossip'.outcome \in Dispatched
             /\ message.data.type = "Sync" =>
                   /\ lastGossip'.outcome = "sync"
                   /\ store' = handle_sync(store, message.data.sync)
             /\ message.data.type = "KeyDistribution" =>
                   /\ lastGossip'.outcome \in {"processed", "replayed", "too_old"}
                   /\ lastGossip'.outcome = "processed" =>
                         message_id([data |-> message.data.kd,
                                     signature |-> message.signature])
                            \in DOMAIN processed_messages']_vars

\* messages whose signature was made by the key of y, none by the signer
\* they name, have been handled by handle_message, the last one changing the
\* whitelist; no key was stored for its signer
C30_Witness ==
    /\ lastGossip.outcome = "processed"
    /\ ~lastGossip.keyed
    /\ "db" \in lastGossip.changed
    /\ processed_messages # <<>>
    /\ \A id \in DOMAIN processed_messages : id[2].key = "y"

\* C24: with auto_request_keys, a call of request_missing_keys emits a
\* KeyRequest for exactly the peers that have a row that has not expired,
\* no stored public key and no pending request younger than five minutes,
\* and records each of them as pending at the instant of the call (so a
\* second call within five minutes emits nothing for them).
C24_RequestsForWhitelistedPeersOnly ==
    [][(RequestKeys /\ key_dist_config.auto_request_keys) =>
          LET emitted == MissingKeys(Node.wl, Node.kd, now)
              due == {p \in DOMAIN db :
                        /\ ~Expired(Node.wl, p, now)
                        /\ db[p].public_key = None
                        /\ ~(/\ p \in DOMAIN pending_requests
                             /\ now - pending_requests[p]
                                   < PendingMinutes * SecondsPerMinute * TicksPerSecond)}
          IN  /\ emitted = due
              /\ \A p \in emitted : p \in DOMAIN pending_requests' /\ pending_requests'[p] = now
              /\ MissingKeys(Node.wl, [Node.kd EXCEPT !.pending_requests = pending_requests'],
                             now) = {}]_vars

(***************************************************************************)
(* PeerWhitelist under the calls of its clients (SpecWhitelist): one        *)
(* PeerWhitelist object, as the node and the tests of whitelist.rs hold it, *)
(* and the whitelist command editing the same table from its own process.   *)
(***************************************************************************)

\* the peers the calls are about, and the public keys handed to add_peer
WlPeers == {"w", "x"}
WlKeys == {None} \cup {Some(PublicKey(p)) : p \in WlPeers}

\* the expiry handed to add_peer: none, an hour ago, or this instant
WlExpiries(t) == {None, Some(t - from_hours(1)), Some(t)}

\* the peers listed in recommended_by of the row of peer_id
Recommenders(table, peer_id) ==
    IF peer_id \in DOMAIN table THEN Elements(table[peer_id].recommended_by) ELSE {}

\* the row of peer_id exists and has no expires_at or one strictly later
\* than t
RowInForce(table, peer_id, t) ==
    /\ peer_id \in DOMAIN table
    /\ \/ table[peer_id].expires_at = None
       \/ table[peer_id].expires_at[1] > t

InitWhitelist ==
    /\ now = 0
    /\ StoreInit
    /\ ReplicasInit
    /\ RateInit
    /\ NodeInit
    /\ UnitInit

outsideWhitelist ==
    <<storeVars, replicaVars, rateVars, pending_requests, processed_messages,
      active_connections, connections_per_ip, mutations, lastGossip, running,
      config, key_dist_config, envelope, tasks>>

\* whitelist.add_peer(peer_id, name, public_key, expires_at)
AddPeer(peer_id, name, public_key, expires_at) ==
    LET wl == add_peer(Node.wl, peer_id, name, public_key, expires_at, now)
    IN  /\ db' = wl.db
        /\ cache' = wl.cache
        /\ everDirect' = everDirect \cup {peer_id}
        /\ lastCall' = [op |-> "add_peer", peer |-> peer_id, ok |-> TRUE]
        /\ UNCHANGED <<now, outsideWhitelist>>

\* whitelist.remove_peer(peer_id)
RemovePeer(peer_id) ==
    LET wl == remove_peer(Node.wl, peer_id)
    IN  /\ db' = wl.db
        /\ cache' = wl.cache
        /\ lastCall' = [op |-> "remove_peer", peer |-> peer_id, ok |-> TRUE]
        /\ UNCHANGED <<now, everDirect, outsideWhitelist>>

\* whitelist.is_whitelisted(peer_id)
IsWhitelisted(peer_id) ==
    LET r == is_whitelisted(Node.wl, peer_id, now)
    IN  /\ db' = r.wl.db
        /\ cache' = r.wl.cache
        /\ lastCall' = [op |-> "is_whitelisted", peer |-> peer_id, ok |-> r.ok]
        /\ UNCHANGED <<now, everDirect, outsideWhitelist>>

\* whitelist.is_trusted_by_chain(peer_id)
IsTrustedByChain(peer_id) ==
    LET r == is_trusted_by_chain(Node.wl, peer_id, now)
    IN  /\ db' = r.wl.db
        /\ cache' = r.wl.cache
        /\ lastCall' = [op |-> "is_trusted_by_chain", peer |-> peer_id, ok |-> r.ok]
        /\ UNCHANGED <<now, everDirect, outsideWhitelist>>

\* whitelist.add_recommendation(peer_id, recommender_id, name)
AddRecommendation(peer_id, recommender_id, name) ==
    LET r == add_recommendation(Node.wl, peer_id, recommender_id, name, now)
    IN  /\ db' = r.wl.db
        /\ cache' = r.wl.cache
        /\ lastCall' = [op |-> "add_recommendation", peer |-> peer_id, ok |-> r.ok,
                        repeated |-> recommender_id \in Recommenders(db, peer_id)]
        /\ UNCHANGED <<now, everDirect, outsideWhitelist>>

\* the bytes a KeyResponse can carry as public_key
WlKeyBytes == {encode_protobuf(PublicKey(p)) : p \in WlPeers} \cup {GarbageBytes}

\* key_dist_manager.handle_key_response(target, public_key, sender_peer_id)
HandleKeyResponse(target, public_key, sender_peer_id) ==
    LET r == handle_key_response(Node.wl, Node.kd, target, public_key, sender_peer_id, now)
    IN  /\ db' = r.wl.db
        /\ cache' = r.wl.cache
        /\ pending_requests' = r.kd.pending_requests
        /\ processed_messages' = r.kd.processed_messages
        /\ everDirect' = DirectAfter(r.wl.db)
        /\ lastCall' = [op |-> "handle_key_response", peer |-> target, ok |-> ~r.err]
        /\ UNCHANGED <<now, storeVars, replicaVars, rateVars, active_connections,
                       connections_per_ip, mutations, lastGossip, running, config, key_dist_config, envelope, tasks>>

NextWhitelist ==
    \/ \E peer_id \in WlPeers, public_key \in WlKeys, expires_at \in WlExpiries(now) :
          AddPeer(peer_id, OperatorName, public_key, expires_at)
    \/ \E target \in WlPeers, public_key \in WlKeyBytes, sender_peer_id \in WlPeers :
          HandleKeyResponse(target, public_key, sender_peer_id)
    \/ \E peer_id \in WlPeers : RemovePeer(peer_id)
    \/ \E peer_id \in WlPeers : IsWhitelisted(peer_id)
    \/ \E peer_id \in WlPeers : IsTrustedByChain(peer_id)
    \/ \E peer_id, recommender_id \in WlPeers :
          peer_id # recommender_id /\ AddRecommendation(peer_id, recommender_id, None)
    \/ \E peer_id \in WlPeers : WhitelistRemove(peer_id)
    \/ ReloadCache
    \/ AdvanceClock

SpecWhitelist == InitWhitelist /\ [][NextWhitelist]_vars

\* C11: for a peer that add_peer never wrote a row for, is_trusted_by_chain
\* answers true only while one of its recommenders is still in the whitelist
\* (in the table or in the cache), so false before the first recommendation
\* and false again once the only recommender has been removed; and it
\* answers true while a recommender has a row in force.
C11_RevocableTrust ==
    [][\A peer_id \in WlPeers :
          (IsTrustedByChain(peer_id) /\ peer_id \notin everDirect) =>
             /\ lastCall'.ok =>
                   \E r \in Recommenders(db, peer_id) : r \in DOMAIN db \/ r \in cache
             /\ (\E r \in Recommenders(db, peer_id) : RowInForce(db, r, now)) =>
                   lastCall'.ok]_vars

\* C12: is_whitelisted never answers true for a peer that add_peer has not
\* written a row for: the row add_recommendation creates for a target that
\* had none does not whitelist the target, whatever is_whitelisted and
\* reload_cache calls come later.
C12_RecommendationDoesNotWhitelist ==
    (lastCall.op = "is_whitelisted" /\ lastCall.peer \notin everDirect) => ~lastCall.ok

\* C18: is_whitelisted(P) returns true if and only if P has a row and the
\* row has no expires_at or an expires_at strictly later than the current
\* time, whether or not P is in the cache.
C18_WhitelistedIffRowInForce ==
    [][\A peer_id \in WlPeers :
          IsWhitelisted(peer_id) => (lastCall'.ok <=> RowInForce(db, peer_id, now))]_vars

\* C19: handle_key_response changes the whitelist table only when
\* is_whitelisted holds of the sender, public_key decodes to a key whose
\* peer id is target, and is_whitelisted holds of target; the table it
\* leaves is then the one it found with the public_key of target's row
\* replaced and nothing else touched.
C19_KeyResponseReplacesOnlyTheKey ==
    [][\A target \in WlPeers, public_key \in WlKeyBytes, sender_peer_id \in WlPeers :
          (HandleKeyResponse(target, public_key, sender_peer_id) /\ db' # db) =>
             /\ is_whitelisted(Node.wl, sender_peer_id, now).ok
             /\ try_decode_protobuf(public_key) # None
             /\ to_peer_id(try_decode_protobuf(public_key)[1]) = target
             /\ is_whitelisted(Node.wl, target, now).ok
             /\ target \in DOMAIN db
             /\ db' = [db EXCEPT ![target].public_key = Some(public_key)]]_vars

\* C20: every row that holds a public_key holds one whose derived peer id is
\* the peer_id of the row.
C20_StoredKeyMatchesPeer ==
    \A peer_id \in DOMAIN db :
        db[peer_id].public_key # None =>
            /\ try_decode_protobuf(db[peer_id].public_key[1]) # None
            /\ to_peer_id(try_decode_protobuf(db[peer_id].public_key[1])[1]) = peer_id

\* C33: when add_peer(P, .., expires_at in the past) has just been called,
\* is_whitelisted(P) returns false and list_peers still has the row of P; and
\* reload_cache puts in the cache exactly the rows that have no expiry or an
\* expiry later than now.
C33_ExpiredRowListedButNotCached ==
    [][ /\ ( /\ lastCall.op = "add_peer"
             /\ lastCall.peer \in DOMAIN db
             /\ Expired(Node.wl, lastCall.peer, now)
             /\ lastCall'.op = "is_whitelisted"
             /\ lastCall'.peer = lastCall.peer )
           => ( /\ ~lastCall'.ok
                /\ lastCall.peer \in DOMAIN list_peers([db |-> db', cache |-> cache']) )
        /\ ReloadCache =>
              cache' = {p \in DOMAIN db : \/ db[p].expires_at = None
                                         \/ db[p].expires_at[1] > now} ]_vars

(***************************************************************************)
(* The whitelist and the key-distribution manager under direct calls and   *)
(* under the messages handle_message is given (SpecTrust)                  *)
(***************************************************************************)

\* the most messages handle_message is given in one run
MaxHandled == 1

\* the names a recommendation or a whitelist request can carry
RecommendedNames == {None, Some("bob")}

\* the key add_peer is handed for peer_id: none or the key of the peer
OwnKeys(peer_id) == {None, Some(PublicKey(peer_id))}

\* the expiry add_peer is handed: none, or one that has passed
TrustExpiries(t) == {None, Some(t - from_hours(1))}

\* the configurations KeyDistributionManager::new is given: the default one
\* and the one with every switch the other way
KeyDistributionConfigs ==
    {KeyDistributionConfig_default,
     [auto_share_keys |-> ~auto_share_keys,
      auto_request_keys |-> ~auto_request_keys,
      accept_whitelist_requests |-> ~accept_whitelist_requests]}

\* the KeyDistributionMessage values a peer can send at instant t
KeyDistributionMessagesAt(t) ==
    [type : {"TrustRecommendation"}, recommender : WlPeers, recommended : WlPeers,
     name : RecommendedNames, timestamp : {t}]
    \cup [type : {"KeyAnnouncement"}, peer_id : WlPeers, public_key : WlKeyBytes,
          timestamp : {t}]
    \cup [type : {"KeyResponse"}, target : WlPeers, public_key : WlKeyBytes, timestamp : {t}]
    \cup [type : {"KeyRequest"}, requestor : WlPeers, target : {"x", local_peer_id},
          timestamp : {t}]
    \cup [type : {"WhitelistRequest"}, peer_id : WlPeers, public_key : WlKeyBytes,
          name : RecommendedNames, timestamp : {t}]

InitTrust ==
    /\ now = 0
    /\ StoreInit
    /\ ReplicasInit
    /\ RateInit
    /\ NodeInit
    /\ config = NodeConfig
    /\ key_dist_config \in KeyDistributionConfigs
    /\ envelope = <<>>
    /\ tasks = <<>>
    /\ lastCall = [op |-> "none"]

\* key_dist_manager.handle_message(message, sender_peer_id), the message
\* being a SignedData the sender made of data
HandleMessage(data, sender_peer_id) ==
    \E r \in {handle_message(Node.wl, Node.kd, SignedData_new(data, sender_peer_id),
                             sender_peer_id, now)} :
        /\ Cardinality(DOMAIN processed_messages) < MaxHandled
        /\ db' = r.wl.db
        /\ cache' = r.wl.cache
        /\ pending_requests' = r.kd.pending_requests
        /\ processed_messages' = r.kd.processed_messages
        /\ everDirect' = DirectAfter(r.wl.db)
        /\ lastCall' = [op |-> "handle_message", data |-> data, sender |-> sender_peer_id,
                        outcome |-> r.outcome, response |-> r.response,
                        changed |-> r.wl.db # db]
        /\ UNCHANGED <<now, storeVars, replicaVars, rateVars, active_connections,
                       connections_per_ip, mutations, lastGossip, running, config,
                       key_dist_config, envelope, tasks>>

NextTrust ==
    \/ \E peer_id \in WlPeers, expires_at \in TrustExpiries(now) :
          \E public_key \in OwnKeys(peer_id) :
             /\ Cardinality(DOMAIN processed_messages) < MaxHandled
             /\ AddPeer(peer_id, OperatorName, public_key, expires_at)
    \/ \E peer_id, recommender_id \in WlPeers, name \in RecommendedNames :
          /\ Cardinality(DOMAIN processed_messages) < MaxHandled
          /\ AddRecommendation(peer_id, recommender_id, name)
    \/ \E peer_id \in WlPeers :
          /\ Cardinality(DOMAIN processed_messages) < MaxHandled
          /\ RemovePeer(peer_id)
    \/ \E data \in KeyDistributionMessagesAt(now), sender_peer_id \in WlPeers :
          HandleMessage(data, sender_peer_id)

SpecTrust == InitTrust /\ [][NextTrust]_vars

\* the whitelist as its clients see it: the rows that have not expired ("a
\* row with expires_at in the past is treated as absent")
RowsInForce(table, t) ==
    [p \in {q \in DOMAIN table : RowInForce(table, q, t)} |-> table[p]]

\* the public key stored for peer_id, if any
StoredKey(table, peer_id) ==
    IF peer_id \in DOMAIN table THEN table[peer_id].public_key ELSE None

\* C21: add_recommendation(target, recommender) returns an error and
\* leaves every row of the whitelist as it was when the recommender has no
\* row in force, and when target and recommender are the same peer.
C21_FailedRecommendationChangesNothing ==
    [][\A peer_id \in WlPeers, recommender_id \in WlPeers, name \in RecommendedNames :
          (/\ AddRecommendation(peer_id, recommender_id, name)
           /\ (~RowInForce(db, recommender_id, now) \/ peer_id = recommender_id)) =>
             (~lastCall'.ok /\ db' = db)]_vars

\* C22: in every row recommended_by lists no recommender twice and
\* recommendation_count is the length of recommended_by; and a recommender
\* that recommends a target it is already listed for changes no row.
C22_RecommendersCountedOnce ==
    /\ [](\A peer_id \in DOMAIN db :
            /\ Cardinality(Elements(db[peer_id].recommended_by))
                  = Len(db[peer_id].recommended_by)
            /\ db[peer_id].recommendation_count = Len(db[peer_id].recommended_by))
    /\ [][(lastCall'.op = "add_recommendation" /\ lastCall'.ok /\ lastCall'.repeated) =>
            \A peer_id \in WlPeers, recommender_id \in WlPeers, name \in RecommendedNames :
               (/\ AddRecommendation(peer_id, recommender_id, name)
                /\ recommender_id \in Recommenders(db, peer_id)) => db' = db]_vars

\* a recommender has recommended, with success, a target whose row already
\* listed it, and the row lists it once
C22_Witness ==
    /\ lastCall.op = "add_recommendation"
    /\ lastCall.ok
    /\ lastCall.repeated
    /\ lastCall.peer \in DOMAIN db
    /\ db[lastCall.peer].recommendation_count = 1

\* C23: add_recommendation on a target whose row add_peer wrote with a name
\* leaves the name of that row as it was, whatever name the recommendation
\* carries.
C23_RecommendationKeepsDirectName ==
    [][\A peer_id \in WlPeers, recommender_id \in WlPeers, name \in RecommendedNames :
          (/\ AddRecommendation(peer_id, recommender_id, name)
           /\ peer_id \in DOMAIN db
           /\ db[peer_id].recommendation_count = 0
           /\ db[peer_id].name # None) =>
             (peer_id \in DOMAIN db' /\ db'[peer_id].name = db[peer_id].name)]_vars

C26_KeyUpdateKeepsOtherFields ==
    [][(/\ lastCall'.op = "handle_message"
        /\ lastCall'.data.type \in {"KeyAnnouncement", "KeyResponse"}) =>
          \A p \in DOMAIN db \cap DOMAIN db' :
             db'[p].public_key # db[p].public_key =>
                /\ db'[p].name = db[p].name
                /\ db'[p].expires_at = db[p].expires_at
                /\ db'[p].recommended_by = db[p].recommended_by
                /\ db'[p].recommendation_count = db[p].recommendation_count]_vars

C29_WhitelistRequestChangesNothing ==
    [][(lastCall'.op = "handle_message" /\ lastCall'.data.type = "WhitelistRequest") =>
          (HandleMessage(lastCall'.data, lastCall'.sender) =>
              /\ db' = db
              /\ cache' = cache
              /\ lastCall'.response = None)]_vars

\* a request that passes every check of the handler has been handled by a
\* manager that accepts whitelist requests
C29_Witness ==
    /\ lastCall.op = "handle_message"
    /\ lastCall.data.type = "WhitelistRequest"
    /\ lastCall.outcome = "processed"
    /\ key_dist_config.accept_whitelist_requests
    /\ lastCall.sender = lastCall.data.peer_id
    /\ lastCall.data.public_key = encode_protobuf(PublicKey(lastCall.data.peer_id))
    /\ lastCall.data.peer_id \notin DOMAIN db

\* C38: a recommendation for a target that has a row (add_recommendation,
\* called directly or by the handling of a TrustRecommendation) leaves the
\* public_key and the expires_at of that row as they were.
C38_RecommendationKeepsKeyAndExpiry ==
    [][ \A target \in WlPeers :
          ( /\ \/ lastCall'.op = "add_recommendation" /\ lastCall'.peer = target
               \/ /\ lastCall'.op = "handle_message"
                  /\ lastCall'.data.type = "TrustRecommendation"
                  /\ lastCall'.data.recommended = target
            /\ lastCall' # lastCall
            /\ target \in DOMAIN db
            /\ target \in DOMAIN db' )
          => ( /\ db'[target].public_key = db[target].public_key
               /\ db'[target].expires_at = db[target].expires_at ) ]_vars

(***************************************************************************)
(* crypto.rs: an envelope is signed, altered on its way, and verified       *)
(* (SpecCrypto)                                                             *)
(***************************************************************************)

\* the payloads and the keypairs of the model
Payloads == {"m1", "m2"}
Keypairs == {"w", "x"}

\* the byte strings a signature field can hold: the signatures the keypairs
\* make over the payloads, and bytes that are no signature of any of them
Signatures ==
    {sign(p, Sha256_digest(serialize(d))) : p \in Keypairs, d \in Payloads}
    \cup {sign("", <<>>)}

InitCrypto == InitWhitelist

outsideCrypto ==
    <<now, storeVars, replicaVars, rateVars, nodeVars, config, key_dist_config, tasks>>

\* SignedData::new(data, keypair)
Sign(data, p) ==
    /\ envelope' = Some(SignedData_new(data, p))
    /\ lastCall' = [op |-> "new", key |-> p]
    /\ UNCHANGED outsideCrypto

\* the data of the envelope is replaced
TamperData(data) ==
    /\ envelope # None
    /\ envelope' = Some([envelope[1] EXCEPT !.data = data])
    /\ UNCHANGED <<lastCall, outsideCrypto>>

\* the signature of the envelope is replaced
TamperSignature(signature) ==
    /\ envelope # None
    /\ envelope' = Some([envelope[1] EXCEPT !.signature = signature])
    /\ UNCHANGED <<lastCall, outsideCrypto>>

\* the declared signer of the envelope is replaced
TamperSigner(p) ==
    /\ envelope # None
    /\ envelope' = Some([envelope[1] EXCEPT !.signer = p])
    /\ UNCHANGED <<lastCall, outsideCrypto>>

\* signed.verify_with_public_key(&keypair.public()) with the keypair of p
VerifyWithPublicKey(p) ==
    /\ envelope # None
    /\ lastCall' = [op |-> "verify_with_public_key", key |-> p, signed |-> envelope[1],
                    ok |-> verify_with_public_key(envelope[1], PublicKey(p))]
    /\ UNCHANGED <<envelope, outsideCrypto>>

\* signed.verify(&keypair) with the keypair of p
Verify(p) ==
    /\ envelope # None
    /\ lastCall' = [op |-> "verify", key |-> p, signed |-> envelope[1],
                    ok |-> SignedData_verify(envelope[1], p)]
    /\ UNCHANGED <<envelope, outsideCrypto>>

NextCrypto ==
    \/ \E data \in Payloads, p \in Keypairs : Sign(data, p)
    \/ \E data \in Payloads : TamperData(data)
    \/ \E signature \in Signatures : TamperSignature(signature)
    \/ \E p \in Keypairs : TamperSigner(p)
    \/ \E p \in Keypairs : VerifyWithPublicKey(p)
    \/ \E p \in Keypairs : Verify(p)

SpecCrypto == InitCrypto /\ [][NextCrypto]_vars

\* the last call was a verification of an envelope
Verified == lastCall.op \in {"verify", "verify_with_public_key"}

\* C13: verification under a key returns true if and only if the declared
\* signer is the identifier derived from that key and the signature is the
\* signature that key makes over the hash of the serialized data; so an
\* envelope as sign produced it verifies under the signing key and under no
\* other key, and it verifies under no key once its data or its signature
\* has been changed.
C13_VerifyIffSignerAndSignature ==
    Verified =>
        /\ lastCall.ok <=>
              /\ lastCall.signed.signer = to_peer_id(PublicKey(lastCall.key))
              /\ lastCall.signed.signature =
                    sign(lastCall.key, Sha256_digest(serialize(lastCall.signed.data)))
        /\ \A d \in Payloads, p \in Keypairs :
              LET fresh == SignedData_new(d, p)
              IN  /\ lastCall.signed = fresh => (lastCall.ok <=> lastCall.key = p)
                  /\ \A d2 \in Payloads \ {d} :
                        lastCall.signed = [fresh EXCEPT !.data = d2] => ~lastCall.ok
                  /\ \A sig \in Signatures \ {fresh.signature} :
                        lastCall.signed = [fresh EXCEPT !.signature = sig] => ~lastCall.ok

\* C13 witness: an envelope whose signature is the one the key makes over
\* its data, but whose declared signer is another peer, was refused by
\* verify_with_public_key under that key.
C13_Witness ==
    /\ lastCall.op = "verify_with_public_key"
    /\ ~lastCall.ok
    /\ lastCall.signed.signer # lastCall.key
    /\ lastCall.signed.signature =
          sign(lastCall.key, Sha256_digest(serialize(lastCall.signed.data)))

(***************************************************************************)
(* ConnectionManager and its AccessControl under connections that open and  *)
(* close (SpecConn)                                                         *)
(***************************************************************************)

\* the addresses connections come from
ConnIPs == {"10.0.0.1", "10.0.0.2"}

\* AccessControl::new(config) of the tests: no whitelist attached
TestConfig ==
    [blocked_peers |-> blocked_peers, allowed_peers |-> allowed_peers, whitelist |-> FALSE]

\* the peer whose row is in the whitelist of the node
ListedPeer == "w"

\* the connection manager of a node whose whitelist holds ListedPeer, or the
\* one of the tests
InitConn ==
    /\ now = 0
    /\ StoreInit
    /\ ReplicasInit
    /\ RateInit
    /\ pending_requests = <<>>
    /\ processed_messages = <<>>
    /\ active_connections = <<>>
    /\ connections_per_ip = <<>>
    /\ mutations = <<>>
    /\ lastGossip = [outcome |-> "none", keyed |-> FALSE, verified |-> FALSE,
                     changed |-> {}, trust_gain |-> <<>>]
    /\ running = TRUE
    /\ config \in {NodeConfig, TestConfig}
    /\ key_dist_config = KeyDistributionConfig_default
    /\ db = add_peer([db |-> <<>>, cache |-> {}], ListedPeer, None, None, None, now).db
    /\ cache = {}
    /\ everDirect = {ListedPeer}
    /\ envelope = <<>>
    /\ tasks = <<>>
    /\ lastCall = [op |-> "none"]

\* the number of connections counted for ip
Count(per_ip, ip) == IF ip \in DOMAIN per_ip THEN per_ip[ip] ELSE 0

\* connection_manager.handle_incoming_connection(peer_id, remote_addr)
HandleIncomingConnection(peer_id, remote_addr) ==
    LET r == handle_incoming_connection(config, Node.cm, Node.wl, peer_id, remote_addr, now)
    IN  /\ active_connections' = r.cm.active_connections
        /\ connections_per_ip' = r.cm.connections_per_ip
        /\ db' = r.wl.db
        /\ cache' = r.wl.cache
        /\ lastCall' =
             [op |-> "handle_incoming_connection", peer |-> peer_id, ip |-> remote_addr,
              count |-> Count(connections_per_ip, remote_addr),
              count_after |-> Count(r.cm.connections_per_ip, remote_addr),
              limit_ok |-> check_connection_limit(connections_per_ip, remote_addr).ok,
              ok |-> /\ check_connection_limit(connections_per_ip, remote_addr).ok
                     /\ check_peer_allowed(config, Node.wl, peer_id, now).ok]
        /\ UNCHANGED <<now, storeVars, replicaVars, rateVars, pending_requests,
                       processed_messages, everDirect, mutations, lastGossip, running,
                       config, key_dist_config, envelope, tasks>>

\* connection_manager.handle_connection_closed(&peer_id)
HandleConnectionClosed(peer_id) ==
    LET cm == handle_connection_closed(Node.cm, peer_id)
    IN  /\ active_connections' = cm.active_connections
        /\ connections_per_ip' = cm.connections_per_ip
        /\ lastCall' = [op |-> "handle_connection_closed", peer |-> peer_id]
        /\ UNCHANGED <<now, storeVars, replicaVars, rateVars, db, cache, pending_requests,
                       processed_messages, everDirect, mutations, lastGossip, running,
                       config, key_dist_config, envelope, tasks>>

NextConn ==
    \/ \E peer_id \in Peers, remote_addr \in ConnIPs :
          HandleIncomingConnection(peer_id, remote_addr)
    \/ \E peer_id \in Peers : HandleConnectionClosed(peer_id)

SpecConn == InitConn /\ [][NextConn]_vars

\* the peers bound to ip in the registry
BoundTo(ip) == {p \in DOMAIN active_connections : active_connections[p] = ip}

\* C14: check_connection_limit(ip) fails exactly when the counter of ip
\* already equals max_connections_per_ip and otherwise increments it by one;
\* no counter ever exceeds max_connections_per_ip and no more than that many
\* peers are bound to one address at a time.
C14_ConnectionCap ==
    /\ \A ip \in ConnIPs :
          /\ Count(connections_per_ip, ip) <= max_connections_per_ip
          /\ Cardinality(BoundTo(ip)) <= max_connections_per_ip
    /\ lastCall.op = "handle_incoming_connection" =>
          /\ lastCall.limit_ok <=> lastCall.count # max_connections_per_ip
          /\ lastCall.limit_ok => lastCall.count_after = lastCall.count + 1
          /\ ~lastCall.limit_ok => (lastCall.count_after = lastCall.count /\ ~lastCall.ok)

\* C14 witness: with two peers bound to one address and its counter at the
\* cap, the admission of a third peer from that address has failed.
C14_Witness ==
    /\ lastCall.op = "handle_incoming_connection"
    /\ ~lastCall.limit_ok
    /\ lastCall.count = max_connections_per_ip
    /\ Cardinality(BoundTo(lastCall.ip)) = max_connections_per_ip
    /\ lastCall.peer \notin BoundTo(lastCall.ip)

\* C37: after any sequence of connection-established and connection-closed
\* events the counter of each address is the number of peers the registry
\* binds to that address (so a refused peer and a second connection of a
\* bound peer keep no slot, and with no binding left every slot is free).
C37_CounterMatchesBindings ==
    \A ip \in ConnIPs : Count(connections_per_ip, ip) = Cardinality(BoundTo(ip))

(***************************************************************************)
(* connection_manager.rs: test_concurrent_operations.  Concurrent tasks on *)
(* one ConnectionManager; a task runs from one lock acquisition to the     *)
(* next.  A task is [pc, peer, addr, ok, seen]:                            *)
(*   pc    "start", "limited" (check_connection_limit returned Ok),        *)
(*         "allowed" (check_peer_allowed returned Ok), "returned"          *)
(*         (handle_incoming_connection has returned ok), "removed" (in     *)
(*         handle_connection_closed, the binding removed, the write lock   *)
(*         on active_connections still held), "done"                       *)
(*   seen  history: the counter of addr when the task checked the limit    *)
(***************************************************************************)
MaxTasks == 3
TaskIds == 1..MaxTasks

\* create_test_peer_id: a peer of its own for every task
TaskPeer(i) == <<"peer", i>>

\* the tasks spawned on a manager made by AccessControl::new
InitTasks ==
    /\ now = 0
    /\ StoreInit
    /\ ReplicasInit
    /\ RateInit
    /\ NodeInit
    /\ config = TestConfig
    /\ key_dist_config = KeyDistributionConfig_default
    /\ envelope = <<>>
    /\ tasks \in [TaskIds -> [pc : {"start"}, addr : ConnIPs, ok : {FALSE}, seen : {0}]]
    /\ lastCall = [op |-> "none"]

outsideTasks ==
    <<now, storeVars, replicaVars, rateVars, pending_requests, processed_messages,
      everDirect, mutations, lastGossip, running, config, key_dist_config, envelope, lastCall>>

\* the write lock on active_connections is held by a task that is between
\* connections.remove and the end of handle_connection_closed
ActiveConnectionsLocked == \E j \in TaskIds : tasks[j].pc = "removed"

\* handle_incoming_connection: self.access_control.check_connection_limit
TaskCheckConnectionLimit(i) ==
    LET limit == check_connection_limit(connections_per_ip, tasks[i].addr)
    IN  /\ tasks[i].pc = "start"
        /\ connections_per_ip' = limit.connections_per_ip
        /\ tasks' = [tasks EXCEPT ![i].pc = IF limit.ok THEN "limited" ELSE "returned",
                                  ![i].seen = Count(connections_per_ip, tasks[i].addr)]
        /\ UNCHANGED <<db, cache, active_connections, outsideTasks>>

\* handle_incoming_connection: self.access_control.check_peer_allowed
TaskCheckPeerAllowed(i) ==
    LET allowed == check_peer_allowed(config, Node.wl, TaskPeer(i), now)
    IN  /\ tasks[i].pc = "limited"
        /\ db' = allowed.wl.db
        /\ cache' = allowed.wl.cache
        /\ tasks' = [tasks EXCEPT ![i].pc = IF allowed.ok THEN "allowed" ELSE "returned"]
        /\ UNCHANGED <<active_connections, connections_per_ip, outsideTasks>>

\* handle_incoming_connection: connections.insert(peer_id, remote_addr)
TaskInsert(i) ==
    /\ tasks[i].pc = "allowed"
    /\ ~ActiveConnectionsLocked
    /\ active_connections' = Upsert(active_connections, TaskPeer(i), tasks[i].addr)
    /\ tasks' = [tasks EXCEPT ![i].pc = "returned", ![i].ok = TRUE]
    /\ UNCHANGED <<db, cache, connections_per_ip, outsideTasks>>

\* handle_connection_closed: connections.remove(peer_id)
TaskRemove(i) ==
    /\ tasks[i].pc = "returned"
    /\ ~ActiveConnectionsLocked
    /\ active_connections' = Without(active_connections, TaskPeer(i))
    /\ tasks' = [tasks EXCEPT ![i].pc = IF TaskPeer(i) \in DOMAIN active_connections
                                        THEN "removed" ELSE "done"]
    /\ UNCHANGED <<db, cache, connections_per_ip, outsideTasks>>

\* handle_connection_closed: self.access_control.release_connection(&ip)
TaskRelease(i) ==
    /\ tasks[i].pc = "removed"
    /\ connections_per_ip' = release_connection(connections_per_ip, tasks[i].addr)
    /\ tasks' = [tasks EXCEPT ![i].pc = "done"]
    /\ UNCHANGED <<db, cache, active_connections, outsideTasks>>

NextTasks ==
    \/ \E i \in TaskIds : TaskCheckConnectionLimit(i)
    \/ \E i \in TaskIds : TaskCheckPeerAllowed(i)
    \/ \E i \in TaskIds : TaskInsert(i)
    \/ \E i \in TaskIds : TaskRemove(i)
    \/ \E i \in TaskIds : TaskRelease(i)

SpecTasks == InitTasks /\ [][NextTasks]_vars

\* the tasks that hold a slot of ip: past the limit check and not yet
\* through release_connection
HoldingSlot(ip) ==
    {i \in TaskIds : /\ tasks[i].addr = ip
                     /\ \/ tasks[i].pc \in {"limited", "allowed", "removed"}
                        \/ tasks[i].pc = "returned" /\ tasks[i].ok}

\* C36: whatever the interleaving of the tasks, an admission is refused only
\* when the counter of its address is at the cap, the counter of an address
\* is the number of tasks that hold a slot of it, and when all tasks have
\* finished the registry holds no binding.
C36_ConcurrentTasksLeaveNothing ==
    /\ \A i \in TaskIds :
          (tasks[i].pc \in {"returned", "done"} /\ ~tasks[i].ok) =>
              tasks[i].seen = max_connections_per_ip
    /\ \A ip \in ConnIPs : Count(connections_per_ip, ip) = Cardinality(HoldingSlot(ip))
    /\ (\A i \in TaskIds : tasks[i].pc = "done") => active_connections = <<>>

\* C36 witness: all tasks have finished, all from one address; two were
\* admitted and one was refused at the cap.
C36_Witness ==
    /\ \A i \in TaskIds : tasks[i].pc = "done" /\ tasks[i].addr = tasks[1].addr
    /\ \E i \in TaskIds : ~tasks[i].ok
    /\ \E i, j \in TaskIds : i # j /\ tasks[i].ok /\ tasks[j].ok
    /\ active_connections = <<>>

(***************************************************************************)
(* AccessControl::check_peer_allowed under every configuration (SpecAccess) *)
(***************************************************************************)

\* the peers that are blocked, allowed, listed and checked
AcPeers == {"w", "x"}

\* the SecurityConfig lists and the two constructors of AccessControl
AccessControls ==
    [blocked_peers : SUBSET AcPeers,
     allowed_peers : {None} \cup {Some(S) : S \in SUBSET AcPeers},
     whitelist : BOOLEAN]

RECURSIVE add_peers(_, _, _)
\* the whitelist after add_peer(p, None, None, None) for every p of S
add_peers(wl, S, t) ==
    IF S = {}
    THEN wl
    ELSE LET p == CHOOSE q \in S : TRUE
         IN  add_peers(add_peer(wl, p, None, None, None, t), S \ {p}, t)

\* an AccessControl of any configuration; the whitelist database holds rows
\* for some of the peers and the PeerWhitelist object was opened on it
InitAccess ==
    /\ now = 0
    /\ StoreInit
    /\ ReplicasInit
    /\ RateInit
    /\ pending_requests = <<>>
    /\ processed_messages = <<>>
    /\ active_connections = <<>>
    /\ connections_per_ip = <<>>
    /\ mutations = <<>>
    /\ lastGossip = [outcome |-> "none", keyed |-> FALSE, verified |-> FALSE,
                     changed |-> {}, trust_gain |-> <<>>]
    /\ running = TRUE
    /\ config \in AccessControls
    /\ key_dist_config = KeyDistributionConfig_default
    /\ \E S \in SUBSET AcPeers :
          /\ db = add_peers([db |-> <<>>, cache |-> {}], S, now).db
          /\ everDirect = S
    /\ cache = {}
    /\ envelope = <<>>
    /\ tasks = <<>>
    /\ lastCall = [op |-> "none"]

\* access_control.check_peer_allowed(&peer_id)
CheckPeerAllowed(peer_id) ==
    LET r == check_peer_allowed(config, Node.wl, peer_id, now)
    IN  /\ db' = r.wl.db
        /\ cache' = r.wl.cache
        /\ lastCall' = [op |-> "check_peer_allowed", peer |-> peer_id, ok |-> r.ok,
                        whitelisted |-> is_whitelisted(Node.wl, peer_id, now).ok]
        /\ UNCHANGED <<now, storeVars, replicaVars, rateVars, pending_requests,
                       processed_messages, active_connections, connections_per_ip,
                       everDirect, mutations, lastGossip, running, config, key_dist_config, envelope, tasks>>

NextAccess == \E peer_id \in AcPeers : CheckPeerAllowed(peer_id)

SpecAccess == InitAccess /\ [][NextAccess]_vars

\* C15: check_peer_allowed denies every peer of the blocklist; a peer that
\* is not blocked is denied, when a whitelist is attached, exactly when
\* is_whitelisted is false, and, when none is attached, exactly when the
\* static allowed set exists and lacks the peer.
C15_BlocklistWins ==
    lastCall.op = "check_peer_allowed" =>
        /\ lastCall.peer \in config.blocked_peers => ~lastCall.ok
        /\ (lastCall.peer \notin config.blocked_peers /\ config.whitelist) =>
              (lastCall.ok <=> lastCall.whitelisted)
        /\ (lastCall.peer \notin config.blocked_peers /\ ~config.whitelist) =>
              (lastCall.ok <=>
                  \/ config.allowed_peers = None
                  \/ lastCall.peer \in config.allowed_peers[1])

\* C15 witness: a blocked peer that the attached whitelist holds and the
\* static allowed set names has been denied.
C15_Witness ==
    /\ lastCall.op = "check_peer_allowed"
    /\ lastCall.peer \in config.blocked_peers
    /\ config.whitelist
    /\ lastCall.whitelisted
    /\ config.allowed_peers # None
    /\ lastCall.peer \in config.allowed_peers[1]
    /\ ~lastCall.ok

(***************************************************************************)
(* security.rs, main.rs: the input validation of keys and values           *)
(***************************************************************************)
MaxChars == 3

\* the characters of the model: a letter, the two path characters, tab,
\* newline, another control character and a two-byte letter
Chars == {"a", ".", "/", TAB, LF, NUL, EAcute}

\* the keys a peer or the operator can write
KeyTexts == UNION {[1..n -> Chars] : n \in 0..MaxChars}

\* the values: up to one byte more than max_value_length allows
ValueTexts == UNION {[1..n -> {"a", EAcute}] : n \in 0..(MaxChars - 1)}

\* SecurityConfig::default of a running node, with its length limits
SecurityConfig_default ==
    [blocked_peers |-> blocked_peers, allowed_peers |-> allowed_peers, whitelist |-> TRUE,
     max_message_size |-> max_message_size,
     max_key_length |-> max_key_length, max_value_length |-> max_value_length]

\* the [security] table of config.toml: the default limits or lower ones
SecurityConfigs ==
    {SecurityConfig_default,
     [SecurityConfig_default EXCEPT !.max_key_length = max_key_length - 1,
                                    !.max_value_length = max_value_length - 1]}

\* the sync messages a peer can publish, the values of a Put around the
\* limit
InboundSyncMessages ==
    [op : {"Put"}, key : KeyTexts, value : {v \in ValueTexts : Len(v) = MaxChars - 1},
     timestamp : {0}]
    \cup [op : {"Delete"}, key : KeyTexts, value : {<<>>}, timestamp : {TicksPerSecond}]

InitValidation ==
    /\ now = 0
    /\ StoreInit
    /\ ReplicasInit
    /\ RateInit
    /\ NodeInit
    /\ config \in SecurityConfigs
    /\ key_dist_config = KeyDistributionConfig_default
    /\ envelope = <<>>
    /\ tasks = <<>>
    /\ lastCall = [op |-> "none"]

outsideValidation ==
    <<now, lastOp, hist, replicaVars, rateVars, nodeVars, config, key_dist_config, envelope, tasks>>

\* the arm P2PMessage::Sync of handle_gossipsub_event for a message that
\* has passed the checks on its sender and signer: a Put, and a Delete
\* after it
InboundSync(sync_msg) ==
    /\ IF sync_msg.op = "Put"
       THEN lastCall.op # "sync"
       ELSE IF lastCall.op = "sync" THEN lastCall.sync.op = "Put" ELSE FALSE
    /\ store' = handle_sync(store, sync_msg)
    /\ lastCall' = [op |-> "sync", sync |-> sync_msg, changed |-> store' # store]
    /\ UNCHANGED outsideValidation

\* validate_key(key, max_length)
ValidateKey(key, max_length) ==
    /\ lastCall.op # "sync"
    /\ lastCall' = [op |-> "validate_key", text |-> key, max_length |-> max_length,
                    ok |-> validate_key(key, max_length)]
    /\ UNCHANGED <<store, outsideValidation>>

\* validate_value(value, max_length)
ValidateValue(value, max_length) ==
    /\ lastCall.op # "sync"
    /\ lastCall' = [op |-> "validate_value", text |-> value, max_length |-> max_length,
                    ok |-> validate_value(value, max_length)]
    /\ UNCHANGED <<store, outsideValidation>>

NextValidation ==
    \/ \E sync_msg \in InboundSyncMessages : InboundSync(sync_msg)
    \/ \E key \in KeyTexts : ValidateKey(key, config.max_key_length)
    \/ \E value \in ValueTexts : ValidateValue(value, config.max_value_length)

SpecValidation == InitValidation /\ [][NextValidation]_vars

\* the rules for a key: non-empty, at most max_length bytes, no control
\* character other than tab and newline, no "..", no "//", no leading "/"
KeyWithinRules(key, max_length) ==
    /\ Len(key) > 0
    /\ len(key) <= max_length
    /\ \A i \in 1..Len(key) : key[i] \in {TAB, LF} \/ ~is_control(key[i])
    /\ \A i \in 1..(Len(key) - 1) : ~(key[i] = "." /\ key[i + 1] = ".")
    /\ \A i \in 1..(Len(key) - 1) : ~(key[i] = "/" /\ key[i + 1] = "/")
    /\ key[1] # "/"

\* C34: an inbound Put or Delete changes the store only if its key is
\* within the rules for max_key_length and, for a Put, its value has at most
\* max_value_length bytes; validate_key and validate_value accept exactly
\* the texts within the rules.
C34_InboundChangesOnlyWithValidInput ==
    /\ (lastCall.op = "sync" /\ lastCall.changed) =>
          /\ KeyWithinRules(lastCall.sync.key, config.max_key_length)
          /\ lastCall.sync.op = "Put" => len(lastCall.sync.value) <= config.max_value_length
    /\ lastCall.op = "validate_key" =>
          (lastCall.ok <=> KeyWithinRules(lastCall.text, lastCall.max_length))
    /\ lastCall.op = "validate_value" =>
          (lastCall.ok <=> len(lastCall.text) <= lastCall.max_length)

(***************************************************************************)
(* main.rs: start_node and handle_input, the operator's add and delete     *)
(***************************************************************************)

\* what the operator types as key and as value: plain texts, a text with a
\* control character, one of control characters only, a path, and texts
\* over the limits (split_whitespace leaves no blank in them)
OperatorKeys ==
    {<<"a">>, <<"a", NUL>>, <<NUL>>, <<".", ".">>, <<"a", "a", "a", "a">>}
OperatorValues == {<<"a">>, <<"a", "a">>, <<"a", "a", "a">>}

\* the [security] table of config.toml: the default, or a lower
\* max_message_size
OperatorConfigs ==
    {SecurityConfig_default,
     [SecurityConfig_default EXCEPT !.max_message_size = max_message_size - 2]}

\* the bytes serde_json adds around key and value (scaled down)
EnvelopeLen == 1

\* serde_json::to_vec(&signed_data)?.len()
json_len(signed_data) ==
    EnvelopeLen + len(signed_data.data.sync.key) + len(signed_data.data.sync.value)

\* P2PMessage::Sync(msg) signed with local_key
SignedSync(sync_msg) ==
    SignedData_new([type |-> "Sync", sync |-> sync_msg], local_peer_id)

InitOperator ==
    /\ now = 0
    /\ StoreInit
    /\ ReplicasInit
    /\ RateInit
    /\ NodeInit
    /\ config \in OperatorConfigs
    /\ key_dist_config = KeyDistributionConfig_default
    /\ envelope = <<>>
    /\ tasks = <<>>
    /\ lastCall = [op |-> "none"]

outsideOperator ==
    <<lastOp, hist, replicaVars, rateVars, db, cache, pending_requests, processed_messages,
      active_connections, connections_per_ip, everDirect, mutations, lastGossip, config,
      key_dist_config, envelope, tasks>>

\* the line `add <key> <value>` read by the loop of start_node.  The clock
\* is read for the message and read again, delay ticks later, by
\* Storage::put; publish_ok is what gossipsub.publish returns.  An error of
\* handle_input leaves the loop through `.await?`.
Add(key, value, delay, publish_ok) ==
    LET sanitized_key == sanitize_input(key)
        sanitized_value == sanitize_input(value)
        valid == /\ validate_key(sanitized_key, config.max_key_length)
                 /\ validate_value(sanitized_value, config.max_value_length)
        msg == [op |-> "Put", key |-> sanitized_key, value |-> sanitized_value,
                timestamp |-> now]
        stored == put_with_timestamp(store, sanitized_key, sanitized_value, now + delay)
        fits == ~(json_len(SignedSync(msg)) > config.max_message_size)
        err == IF ~valid THEN Some("validation")
               ELSE IF ~fits THEN Some("size")
               ELSE IF ~publish_ok THEN Some("publish")
               ELSE None
    IN  /\ running
        /\ now + delay <= MaxInstant
        /\ store' = IF valid THEN stored ELSE store
        /\ now' = IF valid THEN now + delay ELSE now
        /\ running' = (err = None)
        /\ lastCall' = [op |-> "add", key |-> sanitized_key, value |-> sanitized_value,
                        timestamp |-> now, err |-> err, published |-> err = None,
                        changed |-> store' # store]
        /\ UNCHANGED outsideOperator

\* the line `delete <key>`: one reading of the clock for the message and
\* for delete_with_timestamp
OperatorDelete(key, publish_ok) ==
    LET msg == [op |-> "Delete", key |-> key, value |-> <<>>, timestamp |-> now]
        fits == ~(json_len(SignedSync(msg)) > config.max_message_size)
        err == IF ~fits THEN Some("size")
               ELSE IF ~publish_ok THEN Some("publish")
               ELSE None
    IN  /\ running
        /\ store' = delete_with_timestamp(store, key, now)
        /\ running' = (err = None)
        /\ lastCall' = [op |-> "delete", key |-> key, value |-> <<>>, timestamp |-> now,
                        err |-> err, published |-> err = None, changed |-> store' # store]
        /\ UNCHANGED <<now, outsideOperator>>

\* time passes between two lines
Tick ==
    /\ running
    /\ now < MaxInstant
    /\ now' = now + 1
    /\ UNCHANGED <<store, running, lastCall, outsideOperator>>

NextOperator ==
    \/ \E key \in OperatorKeys, value \in OperatorValues, delay \in {0, 1},
          publish_ok \in BOOLEAN : Add(key, value, delay, publish_ok)
    \/ \E key \in OperatorKeys, publish_ok \in BOOLEAN : OperatorDelete(key, publish_ok)
    \/ Tick

SpecOperator == InitOperator /\ [][NextOperator]_vars

\* the sync message a command has published
Published(call) ==
    [op |-> IF call.op = "add" THEN "Put" ELSE "Delete", key |-> call.key,
     value |-> call.value, timestamp |-> call.timestamp]

\* C31: an add of key k followed by a delete of k, however soon after, both
\* published, leaves k absent from the local store and from a store that
\* applies the two published messages in that order.
C31_AddThenDeleteLeavesAbsent ==
    [][ ( /\ lastCall.op = "add"
          /\ lastCall.published
          /\ lastCall'.op = "delete"
          /\ lastCall'.published
          /\ lastCall'.key = lastCall.key )
        => ( /\ lastCall.key \notin DOMAIN store'
             /\ lastCall.key \notin
                   DOMAIN handle_sync(handle_sync(<<>>, Published(lastCall)),
                                      Published(lastCall')) ) ]_vars

\* C32: a failed command reports its cause and the node keeps running.
C32_FailedCommandReturnsToPrompt ==
    (lastCall.op \in {"add", "delete"} /\ lastCall.err # None) => running

\* C40: when an add has changed the local store the Put has been published,
\* and the entry the writer holds is the entry a peer gets by applying the
\* published Put: same value, same timestamp.
C40_StoredAsPublished ==
    lastCall.op = "add" =>
        /\ lastCall.changed => lastCall.published
        /\ (lastCall.published /\ lastCall.changed) =>
              store[lastCall.key] = handle_sync(<<>>, Published(lastCall))[lastCall.key]

(***************************************************************************)
(* whitelist.rs: concurrent calls on one PeerWhitelist.  db and cache are  *)
(* tokio RwLocks; a call runs from one lock acquisition to the next.  A    *)
(* call is [op, peer, recommender, expires_at, pc, holds, peer_ids, ok]:   *)
(*   pc        "<function>.<lock>": the acquisition the call is about to   *)
(*             make (is_whitelisted.cached_db: the db.read inside the      *)
(*             cached branch; is_whitelisted.insert: the cache.write of    *)
(*             the uncached branch), or "done"                             *)
(*   holds     the guards the call holds, as <<lock, mode>>                *)
(*   peer_ids  the rows reload_cache has selected                          *)
(***************************************************************************)

\* the expiry of a row written an hour after it ran out
HourAgo(t) == Some(t - from_hours(1))

\* the calls made concurrently
WhitelistCalls ==
    LET call(op, peer, recommender, expires_at, pc) ==
            [op |-> op, peer |-> peer, recommender |-> recommender,
             expires_at |-> expires_at, pc |-> pc, holds |-> {}, peer_ids |-> {},
             ok |-> FALSE]
    IN  {call("is_whitelisted", p, None, None, "is_whitelisted.cache") : p \in WlPeers}
        \cup {call("add_peer", "x", None, e, "add_peer.db") : e \in {None, HourAgo(0)}}
        \cup {call("remove_peer", p, None, None, "remove_peer.db") : p \in WlPeers}
        \cup {call("add_recommendation", "x", Some("w"), None, "is_whitelisted.cache"),
              call("reload_cache", "w", None, None, "reload_cache.db")}

\* PeerWhitelist::new on a table that holds w for good and, maybe, x with an
\* expiry that ran out; the operator has added them
InitLocks ==
    /\ now = 0
    /\ StoreInit
    /\ ReplicasInit
    /\ RateInit
    /\ pending_requests = <<>>
    /\ processed_messages = <<>>
    /\ active_connections = <<>>
    /\ connections_per_ip = <<>>
    /\ mutations = <<>>
    /\ lastGossip = [outcome |-> "none", keyed |-> FALSE, verified |-> FALSE,
                     changed |-> {}, trust_gain |-> <<>>]
    /\ running = TRUE
    /\ config = NodeConfig
    /\ key_dist_config = KeyDistributionConfig_default
    /\ \E wl \in {add_peer([db |-> <<>>, cache |-> {}], "w", None, None, None, now),
                  add_peer(add_peer([db |-> <<>>, cache |-> {}], "w", None, None, None, now),
                           "x", None, None, HourAgo(now), now)} :
          /\ db = wl.db
          /\ cache = wl.cache
          /\ everDirect = DOMAIN wl.db
    /\ envelope = <<>>
    /\ tasks \in [TaskIds -> WhitelistCalls]
    /\ lastCall = [op |-> "none"]

outsideLocks ==
    <<now, storeVars, replicaVars, rateVars, pending_requests, processed_messages,
      active_connections, connections_per_ip, everDirect, mutations, lastGossip, running,
      config, key_dist_config, envelope, lastCall>>

\* the acquisition a call at pc is about to make
NextLock(pc) ==
    CASE pc \in {"add_peer.db", "remove_peer.db", "add_recommendation.db"} -> <<"db", "write">>
      [] pc \in {"add_peer.cache", "remove_peer.cache", "is_whitelisted.insert",
                 "reload_cache.cache"} -> <<"cache", "write">>
      [] pc \in {"is_whitelisted.cached_db", "is_whitelisted.db", "reload_cache.db"} ->
             <<"db", "read">>
      [] pc = "is_whitelisted.cache" -> <<"cache", "read">>

\* RwLock: read() is granted while no other call holds the write guard,
\* write() while no other call holds any guard
Granted(i, lock) ==
    \A j \in TaskIds \ {i} :
       \A held \in tasks[j].holds :
          held[1] = lock[1] => (lock[2] = "read" /\ held[2] = "read")

\* call i is at pc and its acquisition is granted
At(i, pc) == tasks[i].pc = pc /\ Granted(i, NextLock(pc))

\* the peer is_whitelisted is asked about
Checked(call) == IF call.op = "add_recommendation" THEN call.recommender[1] ELSE call.peer

\* where a call goes on when is_whitelisted has returned ok
Returned(call, ok) ==
    [call EXCEPT !.pc = IF call.op = "add_recommendation" /\ ok
                        THEN "add_recommendation.db" ELSE "done",
                 !.holds = {}, !.ok = ok]

\* add_peer: db.write().await and the INSERT OR REPLACE
TaskAddPeerDb(i) ==
    /\ At(i, "add_peer.db")
    /\ db' = add_peer(Node.wl, tasks[i].peer, OperatorName, None, tasks[i].expires_at, now).db
    /\ tasks' = [tasks EXCEPT ![i].pc = "add_peer.cache", ![i].holds = {<<"db", "write">>}]
    /\ UNCHANGED <<cache, outsideLocks>>

\* add_peer: cache.write().await, cache.insert, return
TaskAddPeerCache(i) ==
    /\ At(i, "add_peer.cache")
    /\ cache' = cache \cup {tasks[i].peer}
    /\ tasks' = [tasks EXCEPT ![i].pc = "done", ![i].holds = {}, ![i].ok = TRUE]
    /\ UNCHANGED <<db, outsideLocks>>

\* remove_peer: db.write().await and the DELETE
TaskRemovePeerDb(i) ==
    /\ At(i, "remove_peer.db")
    /\ db' = Without(db, Checked(tasks[i]))
    /\ tasks' = [tasks EXCEPT ![i].pc = "remove_peer.cache", ![i].holds = {<<"db", "write">>}]
    /\ UNCHANGED <<cache, outsideLocks>>

\* remove_peer: cache.write().await, cache.remove, return; is_whitelisted
\* that called it returns false
TaskRemovePeerCache(i) ==
    /\ At(i, "remove_peer.cache")
    /\ cache' = cache \ {Checked(tasks[i])}
    /\ tasks' = [tasks EXCEPT ![i].pc = "done", ![i].holds = {},
                              ![i].ok = (tasks[i].op = "remove_peer")]
    /\ UNCHANGED <<db, outsideLocks>>

\* is_whitelisted: cache.read().await and cache.contains
TaskIsWhitelistedCache(i) ==
    /\ At(i, "is_whitelisted.cache")
    /\ tasks' = [tasks EXCEPT ![i].pc = IF Checked(tasks[i]) \in cache
                                        THEN "is_whitelisted.cached_db"
                                        ELSE "is_whitelisted.db",
                              ![i].holds = IF Checked(tasks[i]) \in cache
                                           THEN {<<"cache", "read">>} ELSE {}]
    /\ UNCHANGED <<db, cache, outsideLocks>>

\* is_whitelisted, the peer is cached: db.read().await under the cache
\* guard, the expiry test, then drop(cache) and remove_peer, or return true
TaskIsWhitelistedCachedDb(i) ==
    /\ At(i, "is_whitelisted.cached_db")
    /\ tasks' = [tasks EXCEPT ![i] =
                    IF Expired(Node.wl, Checked(tasks[i]), now)
                    THEN [tasks[i] EXCEPT !.pc = "remove_peer.db", !.holds = {}]
                    ELSE Returned(tasks[i], TRUE)]
    /\ UNCHANGED <<db, cache, outsideLocks>>

\* is_whitelisted, the peer is not cached: db.read().await and the query
TaskIsWhitelistedDb(i) ==
    /\ At(i, "is_whitelisted.db")
    /\ tasks' = [tasks EXCEPT ![i] =
                    IF Checked(tasks[i]) \in DOMAIN db /\ ~Expired(Node.wl, Checked(tasks[i]), now)
                    THEN [tasks[i] EXCEPT !.pc = "is_whitelisted.insert",
                                          !.holds = {<<"db", "read">>}]
                    ELSE Returned(tasks[i], FALSE)]
    /\ UNCHANGED <<db, cache, outsideLocks>>

\* is_whitelisted, the row is in force: cache.write().await under the db
\* guard, cache.insert, return true
TaskIsWhitelistedInsert(i) ==
    /\ At(i, "is_whitelisted.insert")
    /\ cache' = cache \cup {Checked(tasks[i])}
    /\ tasks' = [tasks EXCEPT ![i] = Returned(tasks[i], TRUE)]
    /\ UNCHANGED <<db, outsideLocks>>

\* reload_cache: db.read().await and the SELECT
TaskReloadCacheDb(i) ==
    /\ At(i, "reload_cache.db")
    /\ tasks' = [tasks EXCEPT ![i].pc = "reload_cache.cache",
                              ![i].holds = {<<"db", "read">>},
                              ![i].peer_ids = reload_cache(Node.wl, now).cache]
    /\ UNCHANGED <<db, cache, outsideLocks>>

\* reload_cache: cache.write().await under the db guard, clear and insert
TaskReloadCacheCache(i) ==
    /\ At(i, "reload_cache.cache")
    /\ cache' = tasks[i].peer_ids
    /\ tasks' = [tasks EXCEPT ![i].pc = "done", ![i].holds = {}, ![i].ok = TRUE]
    /\ UNCHANGED <<db, outsideLocks>>

\* add_recommendation after is_whitelisted(recommender_id): db.write().await,
\* the SELECT and the INSERT OR REPLACE
TaskAddRecommendationDb(i) ==
    LET peer_id == tasks[i].peer
        recommender_id == tasks[i].recommender[1]
        recommended_by == IF peer_id \in DOMAIN db THEN db[peer_id].recommended_by ELSE <<>>
        recommendation_count ==
            IF peer_id \in DOMAIN db THEN db[peer_id].recommendation_count ELSE 0
    IN  /\ At(i, "add_recommendation.db")
        /\ db' = IF recommender_id \in Elements(recommended_by)
                 THEN db
                 ELSE Upsert(db, peer_id,
                             [name |-> None,
                              public_key |-> None,
                              added_at |-> now,
                              expires_at |-> None,
                              recommended_by |-> Append(recommended_by, recommender_id),
                              recommendation_count |-> recommendation_count + 1])
        /\ tasks' = [tasks EXCEPT ![i].pc = "done", ![i].holds = {}]
        /\ UNCHANGED <<cache, outsideLocks>>

NextLocks ==
    \/ \E i \in TaskIds : TaskAddPeerDb(i)
    \/ \E i \in TaskIds : TaskAddPeerCache(i)
    \/ \E i \in TaskIds : TaskRemovePeerDb(i)
    \/ \E i \in TaskIds : TaskRemovePeerCache(i)
    \/ \E i \in TaskIds : TaskIsWhitelistedCache(i)
    \/ \E i \in TaskIds : TaskIsWhitelistedCachedDb(i)
    \/ \E i \in TaskIds : TaskIsWhitelistedDb(i)
    \/ \E i \in TaskIds : TaskIsWhitelistedInsert(i)
    \/ \E i \in TaskIds : TaskReloadCacheDb(i)
    \/ \E i \in TaskIds : TaskReloadCacheCache(i)
    \/ \E i \in TaskIds : TaskAddRecommendationDb(i)

SpecLocks == InitLocks /\ [][NextLocks]_vars

\* C39: concurrent whitelist calls cannot deadlock: while a call has not
\* returned, some call that has not returned is granted the lock it is
\* about to acquire.
C39_WhitelistCallsCannotDeadlock ==
    (\E i \in TaskIds : tasks[i].pc # "done") =>
        \E i \in TaskIds : tasks[i].pc # "done" /\ Granted(i, NextLock(tasks[i].pc))

====
